---- MODULE Spec2Model ----
(***************************************************************************)
(* Model of the streaming client and the local session store of the Deen   *)
(* mobile app (utils/api.ts, utils/chatStorage.ts, utils/config.ts and the  *)
(* ElaborationModal component).                                             *)
(*                                                                         *)
(* Text is a sequence of one-character strings, so that indexOf, slice,     *)
(* trim, JSON.parse and JSON.stringify are computed character by character. *)
(***************************************************************************)
EXTENDS Integers, Sequences, FiniteSets, TLC

\* ------------------------------------------------------------------------
\* Bounds of the model
\* ------------------------------------------------------------------------

\* progress events the transport delivers for one request
MaxProgress == 3

\* ------------------------------------------------------------------------
\* JavaScript string primitives
\* ------------------------------------------------------------------------

Min(a, b) == IF a < b THEN a ELSE b

\* String.prototype.slice(a, b) for 0 <= a, b (0-based, end exclusive)
Slice(s, a, b) == SubSeq(s, Min(a, Len(s)) + 1, Min(b, Len(s)))

\* String.prototype.slice(a)
SliceFrom(s, a) == Slice(s, a, Len(s))

StartsWithAt(s, m, i) ==
    /\ i + Len(m) - 1 <= Len(s)
    /\ \A k \in 1..Len(m) : s[i + k - 1] = m[k]

\* a plausible slip: lastIndexOf in the place of indexOf
LastIndexOf(s, m) ==
    LET hits == {i \in 1..(Len(s) + 1) : StartsWithAt(s, m, i)}
    IN  IF hits = {} THEN -1
        ELSE (CHOOSE i \in hits : \A j \in hits : i >= j) - 1

\* String.prototype.indexOf(m): 0-based index of the first occurrence, -1 if none
IndexOf(s, m) ==
    LET hits == {i \in 1..(Len(s) + 1) : StartsWithAt(s, m, i)}
    IN  IF hits = {} THEN -1
        ELSE (CHOOSE i \in hits : \A j \in hits : i <= j) - 1

IsWs(c) == c \in {" ", "\n", "\t", "\r"}

\* String.prototype.trim()
Trim(s) ==
    LET solid == {i \in 1..Len(s) : ~IsWs(s[i])}
    IN  IF solid = {} THEN <<>>
        ELSE SubSeq(s, CHOOSE i \in solid : \A j \in solid : i <= j,
                       CHOOSE i \in solid : \A j \in solid : i >= j)

IsPrefix(p, s) == Len(p) <= Len(s) /\ SubSeq(s, 1, Len(p)) = p

RECURSIVE Concat(_)
\* concatenation of a sequence of texts
Concat(ss) == IF ss = <<>> THEN <<>> ELSE Head(ss) \o Concat(Tail(ss))

\* ------------------------------------------------------------------------
\* JSON values and JSON.parse / JSON.stringify
\*
\* A JSON value is a record [t, v]: t is the type tag and v the payload
\* (a number, a text, a sequence of values, or a sequence of <<key, value>>
\* pairs in insertion order).  "undef" is JavaScript's undefined, which no
\* JSON text denotes.  The texts handled here contain no fraction, no
\* exponent and no \b, \f or \u escape.
\* ------------------------------------------------------------------------

JNull == [t |-> "null", v |-> 0]

JBool(b) == [t |-> "bool", v |-> b]

JNum(n) == [t |-> "num", v |-> n]

JStr(s) == [t |-> "str", v |-> s]

JArr(a) == [t |-> "arr", v |-> a]

JObj(ps) == [t |-> "obj", v |-> ps]

JUndefined == [t |-> "undef", v |-> 0]

Digits == <<"0", "1", "2", "3", "4", "5", "6", "7", "8", "9">>

IsDigit(c) == \E d \in 1..10 : Digits[d] = c

DigitVal(c) == (CHOOSE d \in 1..10 : Digits[d] = c) - 1

ParseFail == [ok |-> FALSE, val |-> JNull, pos |-> 0]

ParseOk(v, p) == [ok |-> TRUE, val |-> v, pos |-> p]

RECURSIVE SkipWs(_, _)
\* index of the first non-whitespace character at or after i
SkipWs(s, i) == IF i <= Len(s) /\ IsWs(s[i]) THEN SkipWs(s, i + 1) ELSE i

RECURSIVE DigitsEnd(_, _)
\* index just after the run of digits starting at i
DigitsEnd(s, i) == IF i <= Len(s) /\ IsDigit(s[i]) THEN DigitsEnd(s, i + 1) ELSE i

RECURSIVE DigitsValue(_, _, _, _)
DigitsValue(s, i, e, acc) ==
    IF i >= e THEN acc ELSE DigitsValue(s, i + 1, e, acc * 10 + DigitVal(s[i]))

\* a JSON number at i: -?(0|[1-9][0-9]*)
ParseNumber(s, i) ==
    LET neg == i <= Len(s) /\ s[i] = "-"
        b   == IF neg THEN i + 1 ELSE i
        e   == DigitsEnd(s, b)
    IN  IF e = b THEN ParseFail
        ELSE IF s[b] = "0" /\ e > b + 1 THEN ParseFail
        ELSE LET n == DigitsValue(s, b, e, 0)
             IN  ParseOk(JNum(IF neg THEN 0 - n ELSE n), e)

RECURSIVE ScanString(_, _, _)
\* the characters of a JSON string from i up to its closing quote; the escapes
\* \" \\ \/ \n \t \r are decoded, a raw control character is a syntax error
ScanString(s, i, acc) ==
    IF i > Len(s) THEN ParseFail
    ELSE IF s[i] = "\"" THEN ParseOk(JStr(acc), i + 1)
    ELSE IF s[i] = "\\" THEN
        IF i + 1 > Len(s) THEN ParseFail
        ELSE IF s[i + 1] \in {"\"", "\\", "/"} THEN ScanString(s, i + 2, Append(acc, s[i + 1]))
        ELSE IF s[i + 1] = "n" THEN ScanString(s, i + 2, Append(acc, "\n"))
        ELSE IF s[i + 1] = "t" THEN ScanString(s, i + 2, Append(acc, "\t"))
        ELSE IF s[i + 1] = "r" THEN ScanString(s, i + 2, Append(acc, "\r"))
        ELSE ParseFail
    ELSE IF s[i] \in {"\n", "\t", "\r"} THEN ParseFail
    ELSE ScanString(s, i + 1, Append(acc, s[i]))

\* a JSON string whose opening quote is at i
ParseString(s, i) == ScanString(s, i + 1, <<>>)

RECURSIVE ParseValue(_, _)
RECURSIVE ParseElements(_, _, _)
RECURSIVE ParseMembers(_, _, _)

\* the elements of an array after "[" or after a ",": value (, value)* ]
ParseElements(s, i, acc) ==
    LET r == ParseValue(s, i)
    IN  IF ~r.ok THEN ParseFail
        ELSE LET p == SkipWs(s, r.pos)
             IN  IF p > Len(s) THEN ParseFail
                 ELSE IF s[p] = "," THEN ParseElements(s, p + 1, Append(acc, r.val))
                 ELSE IF s[p] = "]" THEN ParseOk(JArr(Append(acc, r.val)), p + 1)
                 ELSE ParseFail

\* the members of an object after "{" or after a ",": "key" : value (, ...)* }
ParseMembers(s, i, acc) ==
    LET k == SkipWs(s, i)
    IN  IF k > Len(s) \/ s[k] # "\"" THEN ParseFail
        ELSE LET ks == ParseString(s, k)
             IN  IF ~ks.ok THEN ParseFail
                 ELSE LET c == SkipWs(s, ks.pos)
                      IN  IF c > Len(s) \/ s[c] # ":" THEN ParseFail
                          ELSE LET r == ParseValue(s, c + 1)
                               IN  IF ~r.ok THEN ParseFail
                                   ELSE LET p  == SkipWs(s, r.pos)
                                            ps == Append(acc, <<ks.val.v, r.val>>)
                                        IN  IF p > Len(s) THEN ParseFail
                                            ELSE IF s[p] = "," THEN ParseMembers(s, p + 1, ps)
                                            ELSE IF s[p] = "}" THEN ParseOk(JObj(ps), p + 1)
                                            ELSE ParseFail

\* one JSON value starting at or after i (leading whitespace skipped)
ParseValue(s, i) ==
    LET p == SkipWs(s, i)
    IN  IF p > Len(s) THEN ParseFail
        ELSE IF s[p] = "[" THEN
            LET q == SkipWs(s, p + 1)
            IN  IF q <= Len(s) /\ s[q] = "]" THEN ParseOk(JArr(<<>>), q + 1)
                ELSE ParseElements(s, p + 1, <<>>)
        ELSE IF s[p] = "{" THEN
            LET q == SkipWs(s, p + 1)
            IN  IF q <= Len(s) /\ s[q] = "}" THEN ParseOk(JObj(<<>>), q + 1)
                ELSE ParseMembers(s, p + 1, <<>>)
        ELSE IF s[p] = "\"" THEN ParseString(s, p)
        ELSE IF StartsWithAt(s, <<"n", "u", "l", "l">>, p) THEN ParseOk(JNull, p + 4)
        ELSE IF StartsWithAt(s, <<"t", "r", "u", "e">>, p) THEN ParseOk(JBool(TRUE), p + 4)
        ELSE IF StartsWithAt(s, <<"f", "a", "l", "s", "e">>, p) THEN ParseOk(JBool(FALSE), p + 5)
        ELSE ParseNumber(s, p)

\* JSON.parse(s): ok = FALSE stands for the SyntaxError it throws
JSONparse(s) ==
    LET r == ParseValue(s, 1)
    IN  IF r.ok /\ SkipWs(s, r.pos) > Len(s) THEN r ELSE ParseFail

\* obj[key] of a parsed object: the last member of that name, or undefined
HasKey(j, key) == j.t = "obj" /\ \E i \in 1..Len(j.v) : j.v[i][1] = key

GetKey(j, key) ==
    LET hits == {i \in 1..Len(j.v) : j.v[i][1] = key}
    IN  j.v[CHOOSE i \in hits : \A k \in hits : i >= k][2]

RECURSIVE NatToText(_)
\* the decimal digits of a natural number
NatToText(n) ==
    IF n < 10 THEN <<Digits[n + 1]>>
    ELSE Append(NatToText(n \div 10), Digits[(n % 10) + 1])

NumToText(n) == IF n < 0 THEN <<"-">> \o NatToText(0 - n) ELSE NatToText(n)

RECURSIVE EscapeText(_)
\* the characters of a string as JSON.stringify writes them between quotes
EscapeText(s) ==
    IF s = <<>> THEN <<>>
    ELSE LET c == Head(s)
             e == IF c = "\"" THEN <<"\\", "\"">>
                  ELSE IF c = "\\" THEN <<"\\", "\\">>
                  ELSE IF c = "\n" THEN <<"\\", "n">>
                  ELSE IF c = "\t" THEN <<"\\", "t">>
                  ELSE IF c = "\r" THEN <<"\\", "r">>
                  ELSE <<c>>
         IN  e \o EscapeText(Tail(s))

QuoteText(s) == <<"\"">> \o EscapeText(s) \o <<"\"">>

RECURSIVE JSONstringify(_)
RECURSIVE StringifyElements(_, _)
RECURSIVE StringifyMembers(_, _)

\* the elements of an array, comma separated; undefined is written as null
StringifyElements(a, first) ==
    IF a = <<>> THEN <<>>
    ELSE (IF first THEN <<>> ELSE <<",">>)
         \o (IF Head(a).t = "undef" THEN <<"n", "u", "l", "l">> ELSE JSONstringify(Head(a)))
         \o StringifyElements(Tail(a), FALSE)

\* the members of an object, comma separated; undefined members are left out
StringifyMembers(ps, first) ==
    IF ps = <<>> THEN <<>>
    ELSE IF Head(ps)[2].t = "undef" THEN StringifyMembers(Tail(ps), first)
    ELSE (IF first THEN <<>> ELSE <<",">>)
         \o QuoteText(Head(ps)[1]) \o <<":">> \o JSONstringify(Head(ps)[2])
         \o StringifyMembers(Tail(ps), FALSE)

\* JSON.stringify(v) of a defined value
JSONstringify(j) ==
    IF j.t = "null" THEN <<"n", "u", "l", "l">>
    ELSE IF j.t = "bool" THEN (IF j.v THEN <<"t", "r", "u", "e">>
                               ELSE <<"f", "a", "l", "s", "e">>)
    ELSE IF j.t = "num" THEN NumToText(j.v)
    ELSE IF j.t = "str" THEN QuoteText(j.v)
    ELSE IF j.t = "arr" THEN <<"[">> \o StringifyElements(j.v, TRUE) \o <<"]">>
    ELSE <<"{">> \o StringifyMembers(j.v, TRUE) \o <<"}">>

\* obj.key: the member's value, or undefined when obj has no such member
\* (or is not an object at all)
Prop(j, key) == IF HasKey(j, key) THEN GetKey(j, key) ELSE JUndefined

\* !v
Falsy(j) ==
    \/ j.t \in {"null", "undef"}
    \/ j.t = "bool" /\ ~j.v
    \/ j.t = "num" /\ j.v = 0
    \/ j.t = "str" /\ j.v = <<>>

\* ------------------------------------------------------------------------
\* parseStreamResponse (utils/api.ts)
\* ------------------------------------------------------------------------

marker == <<"[", "R", "E", "F", "E", "R", "E", "N", "C", "E", "S", "]">>

ReferencesKey == <<"r", "e", "f", "e", "r", "e", "n", "c", "e", "s">>

\* Array.isArray(parsed) ? parsed
\*   : Array.isArray(parsed?.references) ? parsed.references : []
\* a plausible slip: only a bare array is accepted
ReferencesOfArrayOnly(parsed) == IF parsed.t = "arr" THEN parsed.v ELSE <<>>

ReferencesOf(parsed) ==
    IF parsed.t = "arr" THEN parsed.v
    ELSE IF HasKey(parsed, ReferencesKey) /\ GetKey(parsed, ReferencesKey).t = "arr"
         THEN GetKey(parsed, ReferencesKey).v
    ELSE <<>>

\* a plausible slip: the marker is not looked for, the whole text is the answer
parseStreamResponseNoSplit(fullMessage) ==
    [responseText |-> Trim(fullMessage), references |-> <<>>, threw |-> FALSE]

\* a plausible slip: JSON.parse outside the try block, its SyntaxError
\* reaching the caller
parseStreamResponseRethrows(fullMessage) ==
    LET markerIndex == IndexOf(fullMessage, marker)
        responseText == Trim(Slice(fullMessage, 0, markerIndex))
        parsed == JSONparse(Trim(SliceFrom(fullMessage, markerIndex + Len(marker))))
    IN  IF markerIndex = -1
        THEN [responseText |-> Trim(fullMessage), references |-> <<>>, threw |-> FALSE]
        ELSE IF parsed.ok
        THEN [responseText |-> responseText, references |-> ReferencesOf(parsed.val),
              threw |-> FALSE]
        ELSE [responseText |-> <<>>, references |-> <<>>, threw |-> TRUE]

\* threw: an exception leaves the function (the catch block lets none out)
parseStreamResponse(fullMessage) ==
    LET markerIndex == IndexOf(fullMessage, marker)
    IN  IF markerIndex = -1
        THEN [responseText |-> Trim(fullMessage), references |-> <<>>, threw |-> FALSE]
        ELSE LET responseText == Trim(Slice(fullMessage, 0, markerIndex))
                 afterMarker  == Trim(SliceFrom(fullMessage, markerIndex + Len(marker)))
                 parsed       == JSONparse(afterMarker)
             IN  IF parsed.ok
                 THEN [responseText |-> responseText,
                       references |-> ReferencesOf(parsed.val), threw |-> FALSE]
                 ELSE [responseText |-> responseText, references |-> <<>>,
                       threw |-> FALSE]

\* ------------------------------------------------------------------------
\* The streaming transport: one XMLHttpRequest per stream
\* ------------------------------------------------------------------------

\* The server's response is a sequence of network packets; responseText is
\* the concatenation of the packets received so far (it only ever grows).
ScenarioPackets ==
    << <<"H", "e", "l">>,
       <<"l", "o">>,
       <<" ", "w", "o", "r">>,
       <<"l", "d", "[", "R", "E", "F", "E", "R", "E", "N", "C", "E", "S", "]",
         "{", "\"", "i", "t", "e", "m", "s", "\"", ":", "[", "{", "\"", "a", "\"",
         ":", "1", "}", "]", "}">> >>

ReferencesPackets ==
    << <<"k", " ">>,
       <<"[", "R", "E", "F", "E", "R", "E", "N", "C", "E", "S", "]", "\n",
         "{", "\"", "r", "e", "f", "e", "r", "e", "n", "c", "e", "s", "\"", ":",
         "[", "1", "]", "}">> >>

\* the answer text of the bodies below, with white space around it
MainText == <<" ", "h", "i", "\n">>

\* trailers the server may append: an empty array, a flat array, an object
\* whose field "references" is the array, an object naming it otherwise
TrailerItems ==
    { JArr(<<>>),
      JArr(<<JNum(1), JStr(<<"a">>)>>),
      JObj(<< <<ReferencesKey, JArr(<<JObj(<< <<(<<"a">>), JNum(1)>> >>)>>)>> >>),
      JObj(<< <<(<<"i", "t", "e", "m", "s">>), JArr(<<JNum(1)>>)>> >>) }

\* mainText + separator + JSON.stringify(items)
TrailerBody(items) == MainText \o marker \o JSONstringify(items)

\* texts after the separator that JSON.parse rejects: a truncated object,
\* nothing at all, and an array followed by a second separator and array
MalformedTrailers ==
    { <<"{", "n", "o", "t", " ", "j", "s", "o", "n">>,
      <<>>,
      <<"[", "1", "]">> \o marker \o <<"[", "2", "]">> }

Responses ==
    {ScenarioPackets, ReferencesPackets, << <<"a">>, <<"b">> >>, <<>>}
        \cup {<<TrailerBody(items)>> : items \in TrailerItems}
        \cup {<<MainText \o marker \o t>> : t \in MalformedTrailers}

\* HTTP statuses the server may answer with
Statuses == {200, 204, 404, 500}

\* xhr.statusText, used when the body of an error response is empty
StatusText == <<"?">>

NoError == [name |-> "none", status |-> 0, text |-> <<>>]

\* new Error(`HTTP ${xhr.status}: ${errorText}`)
\* the SyntaxError of JSON.parse
SyntaxError == [name |-> "syntax", status |-> 0, text |-> <<>>]

HttpError(st, errorText) == [name |-> "http", status |-> st, text |-> errorText]

\* new Error("Network error during streaming")
NetworkError == [name |-> "network", status |-> 0, text |-> <<>>]

\* new Error("Request timeout")
TimeoutError == [name |-> "timeout", status |-> 0, text |-> <<>>]

ChunkCall(text) == [cb |-> "chunk", text |-> text, refs |-> <<>>, err |-> NoError]

CompleteCall(text, refs) == [cb |-> "complete", text |-> text, refs |-> refs, err |-> NoError]

ErrorCall(e) == [cb |-> "error", text |-> <<>>, refs |-> <<>>, err |-> e]

VARIABLES
    kind,               \* "none", "chat" (sendChatMessage) or "elab" (handleAsk)
    packets,            \* the body the server sends, packet by packet
    status,             \* the HTTP status of the response
    received,           \* packets received so far: xhr.responseText
    xhrState,           \* "unsent", "loading", "done" or "aborted"
    xhrTimeout,         \* xhr.timeout in ms, 0 = none
    accumulatedText,
    lastProcessedIndex,
    promiseState,       \* "none", "pending", "resolved", "rejected"
    promiseValue,       \* the text the promise resolved with
    promiseError,       \* the error the promise rejected with
    log,                \* callbacks delivered to the subscriber, in order
    exposed,            \* responseText at each progress event, in order
    pc,                 \* the caller: "idle", "awaiting", "done"
    visible,            \* ElaborationModal is shown
    response,           \* ElaborationModal state: response
    loading,            \* ElaborationModal state: loading
    error,              \* ElaborationModal state: error ("", "signin", "failed")
    abortControllerRef, \* "null", "live" or "aborted"
    abandonedAt,        \* Len(log) when the modal was closed in flight, else -1
    storage,            \* AsyncStorage: key -> Absent or Stored(raw text)
    clock,              \* Date.now(), in ms
    ticks,              \* how many times the clock has advanced
    lastOp,             \* the last session-store call: its input, pre-state and result
    faults,             \* how many more calls can meet a failing AsyncStorage
    call,               \* the session-id calls in progress, per caller
    uuids,              \* how many identifiers uuid.v4() has produced
    sessLog,            \* the session-id calls that returned, in order
    chatSessionId,      \* ChatScreen state: sessionId, "" = null
    chatMessages,       \* ChatScreen state: messages
    isLoading,          \* ChatScreen state: isLoading
    isNewChatLoading,   \* ChatScreen state: isNewChatLoading
    timers,             \* the pending save timers, oldest first
    loads,              \* the loadMessages calls of the load effect not yet resolved
    exchanges,          \* the exchanges in flight, oldest first
    initPc,             \* initialize(): "purge", "session" or "done"
    newChat,            \* handleNewChat(): where it is, the id it got, the session it left
    sends,              \* how many messages have been sent
    newChats,           \* how many new chats have been started
    selectedLanguage,   \* ChatScreen state: selectedLanguage
    isLanguageModalVisible, \* ChatScreen state: isLanguageModalVisible
    langLoad,           \* loadInitialLanguage(): where it is and what it read
    progressStore,      \* AsyncStorage under progress:{treeId}, per tree
    progLast,           \* the last getProgress call: its input, pre-state and result
    completed,          \* useHikmahProgress state: completed
    isLoaded,           \* useHikmahProgress state: isLoaded
    progLoads,          \* getProgress calls of loadProgress not yet resolved
    prevToggle,         \* the last toggleComplete: its lesson and the list before it
    toggles,            \* how many times toggleComplete was called
    upCall,             \* upsertUserProgress calls in progress, per caller
    serverRecords,      \* progress records the server holds for (user_id, lesson_id)
    requests,           \* POST and PATCH requests the client has issued
    authStatus,         \* AuthProvider state: status
    authToken,          \* AuthProvider state: accessToken, "" = null
    authOps,            \* auth operations in progress
    authCalls,          \* how many times signIn / signOut were invoked
    storedTokens,       \* the tokens in the device's store: "none", "valid", "expired"
    onLogin             \* RootNavigator: segments[0] === "login"

streamVars ==
    <<kind, packets, status, received, xhrState, xhrTimeout, accumulatedText,
      lastProcessedIndex, promiseState, promiseValue, promiseError, log, exposed, pc>>

modalVars == <<visible, response, loading, error, abortControllerRef, abandonedAt>>

storeVars == <<storage, clock, ticks, lastOp>>

sessVars == <<faults, call, uuids, sessLog>>

chatVars ==
    <<chatSessionId, chatMessages, isLoading, isNewChatLoading, timers, loads,
      exchanges, initPc, newChat, sends, newChats>>

langVars == <<selectedLanguage, isLanguageModalVisible, langLoad>>

progVars ==
    <<progressStore, progLast, completed, isLoaded, progLoads, prevToggle, toggles>>

upsertVars == <<upCall, serverRecords, requests>>

authVars == <<authStatus, authToken, authOps, authCalls, storedTokens, onLogin>>

moreVars == <<langVars, progVars, upsertVars, authVars>>

vars == <<streamVars, modalVars, storeVars, sessVars, chatVars, moreVars>>

\* xhr.responseText once k packets have arrived
ResponseTextAt(k) == Concat(SubSeq(packets, 1, k))

InitStream ==
    /\ kind = "none"
    /\ packets = <<>>
    /\ status = 0
    /\ received = 0
    /\ xhrState = "unsent"
    /\ xhrTimeout = 0
    /\ accumulatedText = <<>>
    /\ lastProcessedIndex = 0
    /\ promiseState = "none"
    /\ promiseValue = <<>>
    /\ promiseError = NoError
    /\ log = <<>>
    /\ exposed = <<>>
    /\ pc = "idle"

InitModal ==
    /\ visible = TRUE
    /\ response = <<>>
    /\ loading = FALSE
    /\ error = ""
    /\ abortControllerRef = "null"
    /\ abandonedAt = -1

\* new XMLHttpRequest(); xhr.open(...); xhr.send(body): the request is in flight
\* and the server has decided what it will answer
XhrSend(k, resp, st, timeout) ==
    /\ kind' = k
    /\ packets' = resp
    /\ status' = st
    /\ received' = 0
    /\ xhrState' = "loading"
    /\ xhrTimeout' = timeout
    /\ accumulatedText' = <<>>
    /\ lastProcessedIndex' = 0
    /\ promiseState' = "pending"
    /\ promiseValue' = <<>>
    /\ promiseError' = NoError
    /\ log' = <<>>
    /\ exposed' = <<>>
    /\ pc' = "awaiting"

\* xhr.timeout = 30000 in sendChatMessageStream
ChatTimeoutMs == 30000

\* elaborateSelectionStream never sets xhr.timeout: the default, no timeout
NoTimeoutMs == 0

\* onChunk(text): the chat caller's onChunk, or setResponse(chunk) of the modal
Emit(text) ==
    /\ log' = Append(log, ChunkCall(text))
    /\ response' = IF kind = "elab" THEN text ELSE response

NoEmit == UNCHANGED <<log, response>>

\* a plausible slip: re-emit whenever a progress event fires
ProgressHasNewAlways(currentText) == Len(currentText) >= lastProcessedIndex

\* if (currentText.length > lastProcessedIndex)
ProgressHasNew(currentText) == Len(currentText) > lastProcessedIndex

\* a plausible slip: pass only the new part (a delta) to onChunk
ProgressChunkDelta(currentText) == SliceFrom(currentText, lastProcessedIndex)

\* accumulatedText = currentText; onChunk(accumulatedText)
ProgressChunk(currentText) == currentText

\* a plausible slip: always emit the final text from the load handler
LoadHasMoreAlways(finalText) == Len(finalText) >= Len(accumulatedText)

\* if (finalText.length > accumulatedText.length)
LoadHasMore(finalText) == Len(finalText) > Len(accumulatedText)

\* a plausible slip: accept every 2xx status
IsSuccessAny2xx(st) == st >= 200 /\ st < 300

\* if (xhr.status === 200)
IsSuccess(st) == st = 200

\* const errorText = xhr.responseText || xhr.statusText
ErrorTextOf(responseText) == IF responseText # <<>> THEN responseText ELSE StatusText

\* sendChatMessageStream: create the XMLHttpRequest and send it (a run of the
\* model follows one request from its creation to the end of its caller)
sendChatMessageStream ==
    /\ pc = "idle"
    /\ \E resp \in Responses, st \in Statuses : XhrSend("chat", resp, st, ChatTimeoutMs)
    /\ UNCHANGED modalVars
    /\ UNCHANGED <<storeVars, sessVars, chatVars, moreVars>>

\* xhr.onprogress: the transport has received k packets so far
XhrOnProgress ==
    /\ xhrState = "loading"
    /\ Len(exposed) < MaxProgress
    /\ \E k \in received..Len(packets) :
        LET currentText == ResponseTextAt(k)
        IN  /\ received' = k
            /\ exposed' = Append(exposed, currentText)
            /\ IF ProgressHasNew(currentText)
               THEN /\ accumulatedText' = ProgressChunk(currentText)
                    /\ lastProcessedIndex' = Len(currentText)
                    /\ Emit(ProgressChunk(currentText))
               ELSE /\ UNCHANGED <<accumulatedText, lastProcessedIndex>>
                    /\ NoEmit
    /\ UNCHANGED <<kind, packets, status, xhrState, xhrTimeout, promiseState,
                   promiseValue, promiseError, pc>>
    /\ UNCHANGED <<visible, loading, error, abortControllerRef, abandonedAt>>
    /\ UNCHANGED <<storeVars, sessVars, chatVars, moreVars>>

\* xhr.onload: the whole body has arrived with the response's status
XhrOnLoad ==
    /\ xhrState = "loading"
    /\ xhrState' = "done"
    /\ received' = Len(packets)
    /\ LET finalText == ResponseTextAt(Len(packets))
       IN  IF IsSuccess(status)
           THEN /\ IF LoadHasMore(finalText)
                   THEN /\ accumulatedText' = finalText
                        /\ Emit(finalText)
                   ELSE /\ UNCHANGED accumulatedText
                        /\ NoEmit
                /\ promiseState' = "resolved"
                /\ promiseValue' = accumulatedText'
                /\ UNCHANGED promiseError
           ELSE /\ promiseState' = "rejected"
                /\ promiseError' = HttpError(status, ErrorTextOf(finalText))
                /\ UNCHANGED <<accumulatedText, promiseValue>>
                /\ NoEmit
    /\ UNCHANGED <<kind, packets, status, xhrTimeout, lastProcessedIndex, exposed, pc>>
    /\ UNCHANGED <<visible, loading, error, abortControllerRef, abandonedAt>>
    /\ UNCHANGED <<storeVars, sessVars, chatVars, moreVars>>

\* xhr.onerror: the connection failed
XhrOnError ==
    /\ xhrState = "loading"
    /\ xhrState' = "done"
    /\ promiseState' = "rejected"
    /\ promiseError' = NetworkError
    /\ UNCHANGED <<kind, packets, status, received, xhrTimeout, accumulatedText,
                   lastProcessedIndex, promiseValue, log, exposed, pc>>
    /\ UNCHANGED modalVars
    /\ UNCHANGED <<storeVars, sessVars, chatVars, moreVars>>

\* xhr.ontimeout: xhr.timeout ms have passed since send (chat only)
XhrOnTimeout ==
    /\ xhrState = "loading"
    /\ xhrTimeout > 0
    /\ xhrState' = "done"
    /\ promiseState' = "rejected"
    /\ promiseError' = TimeoutError
    /\ UNCHANGED <<kind, packets, status, received, xhrTimeout, accumulatedText,
                   lastProcessedIndex, promiseValue, log, exposed, pc>>
    /\ UNCHANGED modalVars
    /\ UNCHANGED <<storeVars, sessVars, chatVars, moreVars>>

\* a plausible slip: onError is also called after a successful onComplete
sendChatMessageAlsoError ==
    /\ kind = "chat"
    /\ pc = "awaiting"
    /\ promiseState \in {"resolved", "rejected"}
    /\ pc' = "done"
    /\ log' = IF promiseState = "resolved"
              THEN LET r == parseStreamResponse(promiseValue)
                   IN  IF r.threw THEN Append(log, ErrorCall(SyntaxError))
                       ELSE log \o <<CompleteCall(r.responseText, r.references),
                                     ErrorCall(NoError)>>
              ELSE Append(log, ErrorCall(promiseError))
    /\ UNCHANGED <<kind, packets, status, received, xhrState, xhrTimeout,
                   accumulatedText, lastProcessedIndex, promiseState, promiseValue,
                   promiseError, exposed>>
    /\ UNCHANGED modalVars
    /\ UNCHANGED <<storeVars, sessVars, chatVars, moreVars>>

\* sendChatMessage after `await sendChatMessageStream(...)`: parse and
\* onComplete, or onError in the catch block
sendChatMessage ==
    /\ kind = "chat"
    /\ pc = "awaiting"
    /\ promiseState \in {"resolved", "rejected"}
    /\ pc' = "done"
    /\ log' = IF promiseState = "resolved"
              THEN LET r == parseStreamResponse(promiseValue)
                   IN  IF r.threw THEN Append(log, ErrorCall(SyntaxError))
                       ELSE Append(log, CompleteCall(r.responseText, r.references))
              ELSE Append(log, ErrorCall(promiseError))
    /\ UNCHANGED <<kind, packets, status, received, xhrState, xhrTimeout,
                   accumulatedText, lastProcessedIndex, promiseState, promiseValue,
                   promiseError, exposed>>
    /\ UNCHANGED modalVars
    /\ UNCHANGED <<storeVars, sessVars, chatVars, moreVars>>

\* ------------------------------------------------------------------------
\* ElaborationModal (components/hikmah/ElaborationModal.tsx)
\* ------------------------------------------------------------------------

Aborted == <<"a", "b", "o", "r", "t", "e", "d">>

\* err.message?.includes("aborted")
MessageIncludesAborted(e) == e.name = "http" /\ IndexOf(e.text, Aborted) # -1

\* handleAsk(textToAsk) up to `await elaborateSelectionStream(...)`, which
\* creates the XMLHttpRequest and sends it without a timeout
handleAsk ==
    /\ visible
    /\ pc = "idle"
    /\ \E blank \in BOOLEAN, signedIn \in BOOLEAN :
        IF blank
        THEN UNCHANGED vars
        ELSE /\ response' = <<>>
             /\ abortControllerRef' = "live"
             /\ UNCHANGED <<visible, abandonedAt>>
             /\ UNCHANGED <<storeVars, sessVars, chatVars, moreVars>>
             /\ IF ~signedIn
                THEN /\ loading' = FALSE
                     /\ error' = "signin"
                     /\ UNCHANGED streamVars
                ELSE /\ loading' = TRUE
                     /\ error' = ""
                     /\ \E resp \in Responses, st \in Statuses :
                            XhrSend("elab", resp, st, NoTimeoutMs)

\* handleAsk after the await: the catch and finally blocks
handleAskSettle ==
    /\ kind = "elab"
    /\ pc = "awaiting"
    /\ promiseState \in {"resolved", "rejected"}
    /\ pc' = "done"
    /\ error' = IF promiseState = "rejected" /\ ~MessageIncludesAborted(promiseError)
                THEN "failed" ELSE error
    /\ loading' = FALSE
    /\ abortControllerRef' = "null"
    /\ UNCHANGED <<kind, packets, status, received, xhrState, xhrTimeout,
                   accumulatedText, lastProcessedIndex, promiseState, promiseValue,
                   promiseError, log, exposed>>
    /\ UNCHANGED <<visible, response, abandonedAt>>
    /\ UNCHANGED <<storeVars, sessVars, chatVars, moreVars>>

\* handleClose: abort the controller (which no request listens to) and onClose()
handleClose ==
    /\ visible
    /\ visible' = FALSE
    /\ abortControllerRef' = IF abortControllerRef # "null" THEN "aborted"
                             ELSE abortControllerRef
    /\ abandonedAt' = IF kind = "elab" /\ xhrState = "loading" THEN Len(log)
                      ELSE abandonedAt
    /\ UNCHANGED streamVars
    /\ UNCHANGED <<response, loading, error>>
    /\ UNCHANGED <<storeVars, sessVars, chatVars, moreVars>>

\* ------------------------------------------------------------------------
\* The session store (utils/chatStorage.ts over AsyncStorage)
\* ------------------------------------------------------------------------

\* CONFIG.CHAT_EXPIRY_SECONDS (utils/config.ts)
CHAT_EXPIRY_SECONDS == 1440

EXPIRES_MS == CHAT_EXPIRY_SECONDS * 1000

MAX_REFS_PER_MSG == 10

MSGS_PREFIX == "deen:msgs:"

VERSION == "v1"

SESSION_KEY == <<"deen:sessionId">>

\* `${MSGS_PREFIX}${sessionId}:${VERSION}`, kept as its three parts
keyFor(sessionId) == <<MSGS_PREFIX, sessionId, VERSION>>

\* k.startsWith(MSGS_PREFIX)
IsMessageKey(k) == k[1] = MSGS_PREFIX

\* `${STORAGE_KEYS.CHAT_LANGUAGE_PREFIX}${sessionId}`, kept as its two parts
languageKeyFor(sessionId) == <<"deen:chatLanguage:", sessionId>>

CHAT_LAST_LANGUAGE == <<"deen:lastChatLanguage">>

SessionIds == {"s1", "s2"}

\* how many identifiers uuid.v4() hands out in one run
MaxUuids == 4

\* a plausible slip: the generator hands out the same identifier again
UuidRepeating(n) == "u1"

\* the n-th identifier uuid.v4() returns: each call returns a new one
Uuid(n) ==
    CASE n = 1 -> "u1" [] n = 2 -> "u2" [] n = 3 -> "u3" [] n = 4 -> "u4"
      [] n = 5 -> "u5" [] OTHER -> "u6"

\* the ids of earlier runs and the ids uuid.v4() produces
AllIds == SessionIds \cup {Uuid(n) : n \in 1..6}

\* an identifier as the text AsyncStorage holds
IdText(id) ==
    CASE id = "s1" -> <<"s", "1">> [] id = "s2" -> <<"s", "2">>
      [] id = "u1" -> <<"u", "1">> [] id = "u2" -> <<"u", "2">>
      [] id = "u3" -> <<"u", "3">> [] id = "u4" -> <<"u", "4">>
      [] id = "u5" -> <<"u", "5">> [] OTHER -> <<"u", "6">>

IdOfText(raw) == CHOOSE id \in AllIds : IdText(id) = raw

Keys ==
    {keyFor(id) : id \in AllIds} \cup {SESSION_KEY}
        \cup {languageKeyFor(id) : id \in SessionIds} \cup {CHAT_LAST_LANGUAGE}

\* what AsyncStorage holds under a key: nothing (getItem gives null) or a string
Absent == [present |-> FALSE, raw |-> <<>>]

Stored(raw) == [present |-> TRUE, raw |-> raw]

K_ts == <<"t", "s">>

K_messages == <<"m", "e", "s", "s", "a", "g", "e", "s">>

K_sender == <<"s", "e", "n", "d", "e", "r">>

K_text == <<"t", "e", "x", "t">>

K_references == ReferencesKey

\* the fields of a reference that compactMessage copies, in its order
AllowedFields ==
    << <<"a", "u", "t", "h", "o", "r">>,
       <<"b", "o", "o", "k", "_", "t", "i", "t", "l", "e">>,
       <<"c", "h", "a", "p", "t", "e", "r", "_", "t", "i", "t", "l", "e">>,
       <<"h", "a", "d", "i", "t", "h", "_", "n", "o">>,
       <<"r", "e", "f", "e", "r", "e", "n", "c", "e">>,
       <<"h", "a", "d", "i", "t", "h", "_", "u", "r", "l">>,
       <<"t", "e", "x", "t">>,
       <<"t", "e", "x", "t", "_", "a", "r">>,
       <<"s", "e", "c", "t">>,
       <<"c", "o", "l", "l", "e", "c", "t", "i", "o", "n">>,
       <<"v", "o", "l", "u", "m", "e">>,
       <<"b", "o", "o", "k", "_", "n", "u", "m", "b", "e", "r">>,
       <<"c", "h", "a", "p", "t", "e", "r", "_", "n", "u", "m", "b", "e", "r">>,
       <<"g", "r", "a", "d", "e", "_", "e", "n">>,
       <<"g", "r", "a", "d", "e", "_", "a", "r">>,
       <<"h", "a", "d", "i", "t", "h", "_", "i", "d">>,
       <<"l", "a", "n", "g">> >>

\* r => ({author: r.author, ..., lang: r.lang})
CompactReference(r) ==
    JObj([i \in 1..Len(AllowedFields) |-> <<AllowedFields[i], Prop(r, AllowedFields[i])>>])

\* a plausible slip: the references are stored without the slice
FirstRefsAll(refs) == refs

\* msg.references.slice(0, MAX_REFS_PER_MSG)
FirstRefs(refs) == SubSeq(refs, 1, Min(Len(refs), MAX_REFS_PER_MSG))

\* Array.isArray(msg.references) && msg.references.length > 0
HasReferences(msg) == Prop(msg, K_references).t = "arr" /\ Prop(msg, K_references).v # <<>>

\* reading r.author of a null or undefined reference is a TypeError
CompactThrows(msg) ==
    /\ HasReferences(msg)
    /\ \E i \in 1..Len(FirstRefs(Prop(msg, K_references).v)) :
           Prop(msg, K_references).v[i].t \in {"null", "undef"}

compactMessage(msg) ==
    LET text == IF Falsy(Prop(msg, K_text)) THEN JStr(<<>>) ELSE Prop(msg, K_text)
        base == << <<K_sender, Prop(msg, K_sender)>>, <<K_text, text>> >>
    IN  IF HasReferences(msg)
        THEN LET refs == FirstRefs(Prop(msg, K_references).v)
             IN  JObj(Append(base,
                     <<K_references,
                       JArr([i \in 1..Len(refs) |-> CompactReference(refs[i])])>>))
        ELSE JObj(base)

\* a turn as the chat screen holds it in memory
Turn(sender, text) == JObj(<< <<K_sender, JStr(sender)>>, <<K_text, JStr(text)>> >>)

TurnWithRefs(sender, text, refs) ==
    JObj(<< <<K_sender, JStr(sender)>>, <<K_text, JStr(text)>>,
            <<K_references, JArr(refs)>> >>)

\* { ts, messages } as saveMessages builds it
Payload(ts, messages) == JObj(<< <<K_ts, JNum(ts)>>, <<K_messages, JArr(messages)>> >>)

\* the clock value the model starts at (later than any TTL before it)
StartClock == 100 * 1000 * 1000

HourMs == 60 * 60 * 1000

Hi == <<"h", "i">>

User == <<"u", "s", "e", "r">>

Bot == <<"b", "o", "t">>

\* a well-shaped record written at ts
RecordAt(ts) == Stored(JSONstringify(Payload(ts, <<Turn(User, Hi)>>)))

\* values found under a messages key when the app starts: records written at
\* various times by earlier runs, and values that are not records
WellShapedRaws ==
    {RecordAt(StartClock - d) :
        d \in {EXPIRES_MS + 1000, EXPIRES_MS + 1, EXPIRES_MS, EXPIRES_MS - 1,
               EXPIRES_MS - 1000, HourMs, 0, 0 - 1000}}

MalformedRaws ==
    { Stored(<<>>),
      Stored(<<"{", "n", "o", "t", " ", "j", "s", "o", "n">>),
      Stored(JSONstringify(JNull)),
      Stored(JSONstringify(JNum(5))),
      Stored(JSONstringify(JObj(<< <<K_ts, JStr(<<"x">>)>>, <<K_messages, JArr(<<>>)>> >>))),
      Stored(JSONstringify(JObj(<< <<K_ts, JNum(StartClock)>> >>))),
      Stored(JSONstringify(JObj(<< <<K_ts, JNum(StartClock)>>, <<K_messages, JObj(<<>>)>> >>))) }

InitialRaws == {Absent} \cup WellShapedRaws \cup MalformedRaws

\* the second session key starts from fewer values, to keep the model small
InitialRawsOther ==
    {Absent, RecordAt(StartClock - EXPIRES_MS), RecordAt(StartClock - EXPIRES_MS - 1000)}

\* a reference as the server sends it: allow-listed fields and one that
\* compactMessage does not copy
Reference(n) ==
    JObj(<< <<(<<"x">>), JNum(1)>>, <<(<<"l", "a", "n", "g">>), JNum(n)>> >>)

\* turn lists handed to saveMessages: a lone user turn, and a user turn
\* followed by a bot turn without text that has one reference more than
\* MAX_REFS_PER_MSG
SaveInputs ==
    { <<Turn(User, Hi)>>,
      <<Turn(User, Hi),
        TurnWithRefs(Bot, <<>>, [n \in 1..(MAX_REFS_PER_MSG + 1) |-> Reference(n)])>> }

\* the chat screen saves the list it has just loaded (load effect, then save
\* effect)
LoadedInput ==
    IF lastOp.name = "load" /\ lastOp.result # <<>> THEN {lastOp.result} ELSE {}

NoOp ==
    [name |-> "none", id |-> "", pre |-> [k \in Keys |-> Absent], at |-> 0,
     result |-> <<>>, threw |-> FALSE, fault |-> {}]

Op(name, id, result) ==
    [name |-> name, id |-> id, pre |-> storage, at |-> clock,
     result |-> result, threw |-> FALSE, fault |-> {}]

\* the AsyncStorage operations that throw during one call: none unless the
\* run still has a failure to spend
FaultSets(ops) == IF faults > 0 THEN SUBSET ops ELSE {{}}

Spend(F) == faults' = IF F = {} THEN faults ELSE faults - 1

\* a plausible slip: only the writes are guarded
TryBlockWritesOnly(fn) == {"setItem", "removeItem", "multiRemove"}

\* the AsyncStorage operations a function calls inside its try block (for
\* loadMessages also the try block inside its catch)
TryBlock(fn) ==
    CASE fn = "purge" -> {"getAllKeys", "getItem", "multiRemove"}
      [] fn = "load" -> {"getItem", "removeItem"}
      [] fn = "save" -> {"setItem"}
      [] fn = "clear" -> {"removeItem"}
      [] fn = "getChatLanguage" -> {"getItem"}
      [] fn = "setChatLanguage" -> {"setItem"}
      [] fn = "clearChatLanguage" -> {"removeItem"}
      [] fn = "getLastChatLanguage" -> {"getItem"}
      [] fn = "setLastChatLanguage" -> {"setItem"}
      [] fn = "getOrCreateSessionId" -> {"getItem", "setItem"}
      [] fn = "startNewConversation" -> {"setItem"}
      [] OTHER -> {}

\* the call rejects when an operation throws outside every try block
OpF(name, id, result, F) ==
    [Op(name, id, result) EXCEPT !.fault = F, !.threw = ~(F \subseteq TryBlock(name))]

\* the callers whose session-id calls may overlap
Callers == {"p1", "p2"}

\* no session-id call in progress
Idle == [pc |-> "idle", fn |-> "", id |-> "", prev |-> Absent]

InitSessIdle ==
    /\ faults = 0
    /\ call = [p \in Callers |-> Idle]
    /\ uuids = 0
    /\ sessLog = <<>>

\* the chat screen as it mounts: useState([]) / useState(false) /
\* useState(null), no timer, initialize() about to run
InitChatIdle ==
    /\ chatSessionId = ""
    /\ chatMessages = <<>>
    /\ isLoading = FALSE
    /\ isNewChatLoading = FALSE
    /\ timers = <<>>
    /\ loads = <<>>
    /\ exchanges = <<>>
    /\ initPc = "purge"
    /\ newChat = [pc |-> "idle", id |-> "", old |-> ""]
    /\ sends = 0
    /\ newChats = 0

\* DEFAULT_LANGUAGE
DEFAULT_LANGUAGE == <<"e", "n", "g", "l", "i", "s", "h">>

\* the language picker as the chat screen mounts
InitLangIdle ==
    /\ selectedLanguage = DEFAULT_LANGUAGE
    /\ isLanguageModalVisible = FALSE
    /\ langLoad = [pc |-> "idle", sid |-> "", resolved |-> <<>>, write |-> FALSE]

\* the trees whose progress is kept
TreeIds == {"t1", "t2"}

\* no getProgress call has been made
NoGet == [called |-> FALSE, treeId |-> "", pre |-> [present |-> FALSE, raw |-> <<>>],
          result |-> [t |-> "undef", v |-> 0], threw |-> FALSE]

\* useHikmahProgress before it mounts, nothing stored
InitProgIdle ==
    /\ progressStore = [t \in TreeIds |-> [present |-> FALSE, raw |-> <<>>]]
    /\ progLast = NoGet
    /\ completed = <<>>
    /\ isLoaded = FALSE
    /\ progLoads = <<>>
    /\ prevToggle = [id |-> "", before |-> {}]
    /\ toggles = 0

\* the callers of upsertUserProgress in the lesson screen
UpsertCallers == {"page1", "page2", "complete"}

\* no upsert has been started, the server holds no record
InitUpsertIdle ==
    /\ upCall = [c \in UpsertCallers |-> "idle"]
    /\ serverRecords = 0
    /\ requests = [post |-> 0, patch |-> 0]

\* AuthProvider as it mounts: useState("loading"), no operation started
InitAuthIdle ==
    /\ authStatus = "loading"
    /\ authToken = ""
    /\ authOps = {}
    /\ authCalls = 0
    /\ storedTokens = "none"
    /\ onLogin = FALSE

\* the parts of the app that are not in use
InitMoreIdle == InitLangIdle /\ InitProgIdle /\ InitUpsertIdle /\ InitAuthIdle

\* no session-store call has been made and storage is empty
InitStoreIdle ==
    /\ storage = [k \in Keys |-> Absent]
    /\ clock = StartClock
    /\ ticks = 0
    /\ lastOp = NoOp

\* the app starts with whatever earlier runs left in storage
InitStore ==
    /\ \E r1 \in InitialRaws, r2 \in InitialRawsOther :
          storage = [k \in Keys |->
                        IF k = keyFor("s1") THEN r1
                        ELSE IF k = keyFor("s2") THEN r2
                        ELSE IF k = SESSION_KEY THEN Stored(IdText("s1"))
                        ELSE Absent]
    /\ clock = StartClock
    /\ ticks = 0
    /\ lastOp = NoOp

\* AsyncStorage.removeItem(k) / multiRemove(ks)
RemoveKeys(st, ks) == [k \in Keys |-> IF k \in ks THEN Absent ELSE st[k]]

\* !raw for the value getItem returned: null or the empty string
NoRaw(item) == ~item.present \/ item.raw = <<>>

\* typeof parsed.ts === "number"
HasNumberTs(parsed) == Prop(parsed, K_ts).t = "num"

\* a plausible slip: the record at exactly the TTL counts as expired
IsExpiredOnLoadInclusive(ts, now) == now - ts >= EXPIRES_MS

\* if (now() - parsed.ts > EXPIRES_MS)
IsExpiredOnLoad(ts, now) == now - ts > EXPIRES_MS

\* if (parsed.ts < cutoff), cutoff = now() - EXPIRES_MS
IsExpiredOnPurge(ts, cutoff) == ts < cutoff

\* loadMessages' verdict on the value under the key: what it returns and
\* whether it removes the key
LoadOutcome(item, now) ==
    IF NoRaw(item) THEN [result |-> <<>>, remove |-> FALSE]
    ELSE LET p == JSONparse(item.raw)
         IN  IF ~p.ok THEN [result |-> <<>>, remove |-> TRUE]
             ELSE IF \/ Falsy(p.val)
                     \/ ~HasNumberTs(p.val)
                     \/ Prop(p.val, K_messages).t # "arr"
                  THEN [result |-> <<>>, remove |-> TRUE]
             ELSE IF IsExpiredOnLoad(Prop(p.val, K_ts).v, now)
                  THEN [result |-> <<>>, remove |-> TRUE]
             ELSE [result |-> Prop(p.val, K_messages).v, remove |-> FALSE]

\* loadMessages(sessionId)
\* the ids loadMessages is called with: the known sessions and the ids the
\* session-id calls have returned
LoadIds == SessionIds \cup {sessLog[i].id : i \in 1..Len(sessLog)}

\* loadMessages(sessionId); a getItem that throws lands in the catch, which
\* removes the key and returns []; a removeItem that throws is swallowed
loadMessages ==
    \E id \in LoadIds, F \in FaultSets({"getItem", "removeItem"}) :
        LET out == IF "getItem" \in F THEN [result |-> <<>>, remove |-> TRUE]
                   ELSE LoadOutcome(storage[keyFor(id)], clock)
        IN  /\ storage' = IF out.remove /\ "removeItem" \notin F
                          THEN RemoveKeys(storage, {keyFor(id)}) ELSE storage
            /\ lastOp' = OpF("load", id, out.result, F)
            /\ Spend(F)
            /\ UNCHANGED <<clock, ticks, call, uuids, sessLog>>
            /\ UNCHANGED <<streamVars, modalVars, chatVars, moreVars>>

\* purgeExpiredSessions' verdict on one messages key: delete it or keep it
PurgeDeletes(item, cutoff) ==
    IF NoRaw(item) THEN TRUE
    ELSE LET p == JSONparse(item.raw)
         IN  IF ~p.ok THEN TRUE
             ELSE IF Falsy(p.val) \/ ~HasNumberTs(p.val) THEN TRUE
             ELSE IsExpiredOnPurge(Prop(p.val, K_ts).v, cutoff)

\* purgeExpiredSessions(): getAllKeys lists the keys that are present; a
\* getItem that throws puts the key on the delete list (inner catch); a
\* getAllKeys or multiRemove that throws ends the sweep with nothing deleted
purgeExpiredSessions ==
    \E F \in FaultSets({"getAllKeys", "getItem", "multiRemove"}) :
        LET cutoff      == clock - EXPIRES_MS
            allKeys     == {k \in Keys : storage[k].present}
            messageKeys == {k \in allKeys : IsMessageKey(k)}
            toDelete    == {k \in messageKeys :
                               "getItem" \in F \/ PurgeDeletes(storage[k], cutoff)}
        IN  /\ storage' = IF "getAllKeys" \in F \/ "multiRemove" \in F
                          THEN storage ELSE RemoveKeys(storage, toDelete)
            /\ lastOp' = OpF("purge", "", <<>>, F)
            /\ Spend(F)
            /\ UNCHANGED <<clock, ticks, call, uuids, sessLog>>
            /\ UNCHANGED <<streamVars, modalVars, chatVars, moreVars>>

\* saveMessages(sessionId, messages); an empty sessionId returns at once, and
\* a TypeError of compactMessage or a setItem that throws is caught with
\* nothing written
saveMessages ==
    \E id \in SessionIds \cup {""}, messages \in SaveInputs \cup LoadedInput,
       F \in FaultSets({"setItem"}) :
        /\ IF \/ id = "" \/ "setItem" \in F
              \/ \E i \in 1..Len(messages) : CompactThrows(messages[i])
           THEN UNCHANGED storage
           ELSE LET compact == [i \in 1..Len(messages) |-> compactMessage(messages[i])]
                    payload == Payload(clock, compact)
                IN  storage' = [storage EXCEPT ![keyFor(id)] = Stored(JSONstringify(payload))]
        /\ lastOp' = OpF("save", id, messages, F)
        /\ Spend(F)
        /\ UNCHANGED <<clock, ticks, call, uuids, sessLog>>
        /\ UNCHANGED <<streamVars, modalVars, chatVars, moreVars>>

\* clearMessages(sessionId)
clearMessages ==
    \E id \in SessionIds, F \in FaultSets({"removeItem"}) :
        /\ storage' = IF "removeItem" \in F THEN storage
                      ELSE RemoveKeys(storage, {keyFor(id)})
        /\ lastOp' = OpF("clear", id, <<>>, F)
        /\ Spend(F)
        /\ UNCHANGED <<clock, ticks, call, uuids, sessLog>>
        /\ UNCHANGED <<streamVars, modalVars, chatVars, moreVars>>

\* ------------------------------------------------------------------------
\* The chat language of a session and the last language chosen
\* ------------------------------------------------------------------------

Languages == {<<"e", "n">>, <<"a", "r">>}

getChatLanguage ==
    \E id \in SessionIds, F \in FaultSets({"getItem"}) :
        /\ lastOp' = OpF("getChatLanguage", id,
                         IF "getItem" \in F THEN <<Absent>>
                         ELSE <<storage[languageKeyFor(id)]>>, F)
        /\ Spend(F)
        /\ UNCHANGED <<storage, clock, ticks, call, uuids, sessLog>>
        /\ UNCHANGED <<streamVars, modalVars, chatVars, moreVars>>

setChatLanguage ==
    \E id \in SessionIds, language \in Languages, F \in FaultSets({"setItem"}) :
        /\ storage' = IF "setItem" \in F THEN storage
                      ELSE [storage EXCEPT ![languageKeyFor(id)] = Stored(language)]
        /\ lastOp' = OpF("setChatLanguage", id, <<>>, F)
        /\ Spend(F)
        /\ UNCHANGED <<clock, ticks, call, uuids, sessLog>>
        /\ UNCHANGED <<streamVars, modalVars, chatVars, moreVars>>

clearChatLanguage ==
    \E id \in SessionIds, F \in FaultSets({"removeItem"}) :
        /\ storage' = IF "removeItem" \in F THEN storage
                      ELSE RemoveKeys(storage, {languageKeyFor(id)})
        /\ lastOp' = OpF("clearChatLanguage", id, <<>>, F)
        /\ Spend(F)
        /\ UNCHANGED <<clock, ticks, call, uuids, sessLog>>
        /\ UNCHANGED <<streamVars, modalVars, chatVars, moreVars>>

getLastChatLanguage ==
    \E F \in FaultSets({"getItem"}) :
        /\ lastOp' = OpF("getLastChatLanguage", "",
                         IF "getItem" \in F THEN <<Absent>>
                         ELSE <<storage[CHAT_LAST_LANGUAGE]>>, F)
        /\ Spend(F)
        /\ UNCHANGED <<storage, clock, ticks, call, uuids, sessLog>>
        /\ UNCHANGED <<streamVars, modalVars, chatVars, moreVars>>

setLastChatLanguage ==
    \E language \in Languages, F \in FaultSets({"setItem"}) :
        /\ storage' = IF "setItem" \in F THEN storage
                      ELSE [storage EXCEPT ![CHAT_LAST_LANGUAGE] = Stored(language)]
        /\ lastOp' = OpF("setLastChatLanguage", "", <<>>, F)
        /\ Spend(F)
        /\ UNCHANGED <<clock, ticks, call, uuids, sessLog>>
        /\ UNCHANGED <<streamVars, modalVars, chatVars, moreVars>>

\* ------------------------------------------------------------------------
\* The session pointer: getOrCreateSessionId and startNewConversation
\* (utils/api.ts). Each await is a point where another call can run.
\* ------------------------------------------------------------------------

\* how many session-id calls are made in one run
MaxCalls == 3

\* a call may begin while the run has calls and identifiers left for it
\* (a call uses at most two: the one it tries to store and the fallback)
MayBegin(p) ==
    LET active == Cardinality({q \in Callers : call[q].pc # "idle"})
    IN  /\ call[p].pc = "idle"
        /\ Len(sessLog) + active < MaxCalls
        /\ uuids + 2 * (active + 1) <= MaxUuids

\* the call of caller p returns id, st being the storage it leaves
Return(p, id, F, st) ==
    /\ storage' = st
    /\ sessLog' = Append(sessLog, [fn |-> call[p].fn, id |-> id, fault |-> F,
                                   prev |-> call[p].prev, pointer |-> st[SESSION_KEY]])
    /\ call' = [call EXCEPT ![p] = Idle]
    /\ lastOp' = OpF(call[p].fn, id, <<>>, F)
    /\ Spend(F)

\* getOrCreateSessionId() up to its first await
getOrCreateSessionId ==
    \E p \in Callers :
        /\ MayBegin(p)
        /\ call' = [call EXCEPT ![p] = [pc |-> "getItem", fn |-> "getOrCreateSessionId",
                                        id |-> "", prev |-> storage[SESSION_KEY]]]
        /\ UNCHANGED <<storage, clock, ticks, lastOp, faults, uuids, sessLog>>
        /\ UNCHANGED <<streamVars, modalVars, chatVars, moreVars>>

\* let id = await AsyncStorage.getItem(SESSION_KEY) settles: a stored id is
\* returned, a missing one makes the call generate an id and start setItem,
\* a failure returns a fallback id that is stored nowhere
getOrCreateGetItem ==
    \E p \in Callers, F \in FaultSets({"getItem"}) :
        /\ call[p].pc = "getItem"
        /\ IF "getItem" \in F
           THEN /\ uuids' = uuids + 1
                /\ Return(p, Uuid(uuids + 1), F, storage)
           ELSE IF NoRaw(storage[SESSION_KEY])
           THEN /\ uuids' = uuids + 1
                /\ call' = [call EXCEPT ![p].pc = "setItem", ![p].id = Uuid(uuids + 1)]
                /\ UNCHANGED <<storage, lastOp, faults, sessLog>>
           ELSE /\ Return(p, IdOfText(storage[SESSION_KEY].raw), F, storage)
                /\ UNCHANGED uuids
        /\ UNCHANGED <<clock, ticks>>
        /\ UNCHANGED <<streamVars, modalVars, chatVars, moreVars>>

\* await AsyncStorage.setItem(SESSION_KEY, id) of getOrCreateSessionId settles
getOrCreateSetItem ==
    \E p \in Callers, F \in FaultSets({"setItem"}) :
        /\ call[p].pc = "setItem" /\ call[p].fn = "getOrCreateSessionId"
        /\ IF "setItem" \in F
           THEN /\ uuids' = uuids + 1
                /\ Return(p, Uuid(uuids + 1), F, storage)
           ELSE /\ Return(p, call[p].id, F,
                          [storage EXCEPT ![SESSION_KEY] = Stored(IdText(call[p].id))])
                /\ UNCHANGED uuids
        /\ UNCHANGED <<clock, ticks>>
        /\ UNCHANGED <<streamVars, modalVars, chatVars, moreVars>>

\* startNewConversation() up to its await: the id is generated at once
startNewConversation ==
    \E p \in Callers :
        /\ MayBegin(p)
        /\ uuids' = uuids + 1
        /\ call' = [call EXCEPT ![p] = [pc |-> "setItem", fn |-> "startNewConversation",
                                        id |-> Uuid(uuids + 1),
                                        prev |-> storage[SESSION_KEY]]]
        /\ UNCHANGED <<storage, clock, ticks, lastOp, faults, sessLog>>
        /\ UNCHANGED <<streamVars, modalVars, chatVars, moreVars>>

\* await AsyncStorage.setItem(SESSION_KEY, id) of startNewConversation settles
startSetItem ==
    \E p \in Callers, F \in FaultSets({"setItem"}) :
        /\ call[p].pc = "setItem" /\ call[p].fn = "startNewConversation"
        /\ IF "setItem" \in F
           THEN /\ uuids' = uuids + 1
                /\ Return(p, Uuid(uuids + 1), F, storage)
           ELSE /\ Return(p, call[p].id, F,
                          [storage EXCEPT ![SESSION_KEY] = Stored(IdText(call[p].id))])
                /\ UNCHANGED uuids
        /\ UNCHANGED <<clock, ticks>>
        /\ UNCHANGED <<streamVars, modalVars, chatVars, moreVars>>

\* how many times the clock advances in one run
MaxTicks == 1

\* time passes between two calls
Tick ==
    /\ ticks < MaxTicks
    /\ \E d \in {1000, HourMs} : clock' = clock + d
    /\ ticks' = ticks + 1
    /\ UNCHANGED <<storage, lastOp, sessVars>>
    /\ UNCHANGED <<streamVars, modalVars, chatVars, moreVars>>

\* ------------------------------------------------------------------------
\* The chat screen: session, turn list, debounced save, exchanges
\* ------------------------------------------------------------------------

\* how many messages the user sends in one run
MaxSends == 2

\* how many times the user starts a new chat in one run
MaxNewChats == 1

\* how many chunk callbacks one exchange delivers
MaxChunks == 1

chatFrame ==
    <<streamVars, modalVars, clock, ticks, lastOp, faults, call, sessLog, moreVars>>

\* ERROR_MESSAGES.CHAT_FAILED, cut after its first words
CHAT_FAILED == <<"I", " ", "a", "p", "o", "l", "o", "g", "i", "z", "e">>

\* the answer of the server; the k-th chunk callback carries its first k
\* characters (the accumulated text so far)
AnswerText == <<"a", "b", "c", "d">>

ChunkText(k) == SubSeq(AnswerText, 1, k)

\* a plausible slip: the save effect starts its timer without clearing the
\* one before
SaveEffectNoClear(sid, msgs) ==
    IF sid = "" THEN timers
    ELSE Append([i \in 1..Len(timers) |-> [timers[i] EXCEPT !.latest = FALSE]],
                [sid |-> sid, msgs |-> msgs, latest |-> TRUE])

\* the save effect of a render with (sessionId, messages): the clean-up of
\* the effect before it and the effect itself clear the timer
\* saveTimerRef.current names, and with a session id a new timer is started
\* whose callback holds this render's sessionId and messages
SaveEffect(sid, msgs) ==
    LET kept == SelectSeq(timers, LAMBDA t : ~t.latest)
    IN  IF sid = "" THEN kept
        ELSE Append(kept, [sid |-> sid, msgs |-> msgs, latest |-> TRUE])

\* the render after setSessionId(sid) on storage st: the load effect calls
\* loadMessages(sid), whose getItem (and removeItem) are queued at once, and
\* the save effect restarts the timer
SessionEffects(st, sid, msgs) ==
    LET out == LoadOutcome(st[keyFor(sid)], clock)
    IN  /\ storage' = IF out.remove THEN RemoveKeys(st, {keyFor(sid)}) ELSE st
        /\ loads' = Append(loads, [sid |-> sid, initial |-> out.result])
        /\ timers' = SaveEffect(sid, msgs)

\* updated = [...prev]; updated[updated.length - 1] = turn; on an empty
\* list the assignment to index -1 adds no element
ReplaceLast(list, turn) ==
    IF list = <<>> THEN <<>> ELSE [list EXCEPT ![Len(list)] = turn]

\* initialize(): await purgeExpiredSessions()
initializePurge ==
    /\ initPc = "purge"
    /\ LET cutoff   == clock - EXPIRES_MS
           toDelete == {k \in Keys : /\ storage[k].present
                                     /\ IsMessageKey(k)
                                     /\ PurgeDeletes(storage[k], cutoff)}
       IN  storage' = RemoveKeys(storage, toDelete)
    /\ initPc' = "session"
    /\ UNCHANGED <<chatSessionId, chatMessages, isLoading, isNewChatLoading,
                   timers, loads, exchanges, newChat, sends, newChats>>
    /\ UNCHANGED <<chatFrame, uuids>>

\* initialize(): const sid = await getOrCreateSessionId(); setSessionId(sid)
initializeSession ==
    /\ initPc = "session"
    /\ LET item  == storage[SESSION_KEY]
           fresh == NoRaw(item)
           sid   == IF fresh THEN Uuid(uuids + 1) ELSE IdOfText(item.raw)
           st    == IF fresh
                    THEN [storage EXCEPT ![SESSION_KEY] = Stored(IdText(sid))]
                    ELSE storage
       IN  /\ uuids' = IF fresh THEN uuids + 1 ELSE uuids
           /\ chatSessionId' = sid
           /\ IF sid = chatSessionId
              THEN UNCHANGED <<storage, loads, timers>>
              ELSE SessionEffects(st, sid, chatMessages)
    /\ initPc' = "done"
    /\ UNCHANGED <<chatMessages, isLoading, isNewChatLoading, exchanges,
                   newChat, sends, newChats>>
    /\ UNCHANGED chatFrame

\* loadInitialMessages(): loadMessages(sessionId) resolves; setMessages(initial)
loadInitialMessages ==
    /\ loads # <<>>
    /\ chatMessages' = Head(loads).initial
    /\ loads' = Tail(loads)
    /\ timers' = SaveEffect(chatSessionId, chatMessages')
    /\ UNCHANGED <<chatSessionId, isLoading, isNewChatLoading, exchanges,
                   initPc, newChat, sends, newChats>>
    /\ UNCHANGED <<chatFrame, storage, uuids>>

\* the save timer fires after DEBOUNCE_DELAY: saveMessages(sessionId, messages)
\* with the values of the render that started it
saveTimerFires ==
    /\ timers # <<>>
    /\ LET t       == Head(timers)
           compact == [i \in 1..Len(t.msgs) |-> compactMessage(t.msgs[i])]
       IN  storage' = [storage EXCEPT
                          ![keyFor(t.sid)] = Stored(JSONstringify(Payload(clock, compact)))]
    /\ timers' = Tail(timers)
    /\ UNCHANGED <<chatSessionId, chatMessages, isLoading, isNewChatLoading,
                   loads, exchanges, initPc, newChat, sends, newChats>>
    /\ UNCHANGED <<chatFrame, uuids>>

\* handleSendMessage() with a non-empty input, up to the await of
\* sendChatMessage
handleSendMessage ==
    /\ chatSessionId # ""
    /\ ~isLoading
    /\ sends < MaxSends
    /\ chatMessages' = chatMessages \o <<Turn(User, Hi), Turn(Bot, <<>>)>>
    /\ isLoading' = TRUE
    /\ exchanges' = Append(exchanges,
                           [slot   |-> Len(chatMessages) + 2,
                            before |-> Append(chatMessages, Turn(User, Hi)),
                            chunks |-> 0])
    /\ timers' = SaveEffect(chatSessionId, chatMessages')
    /\ sends' = sends + 1
    /\ UNCHANGED <<chatSessionId, isNewChatLoading, loads, initPc, newChat, newChats>>
    /\ UNCHANGED <<chatFrame, storage, uuids>>

\* onChunk of an exchange in flight
onChunk ==
    \E i \in 1..Len(exchanges) :
        /\ exchanges[i].chunks < MaxChunks
        /\ isLoading' = FALSE
        /\ chatMessages' = ReplaceLast(chatMessages,
                                       Turn(Bot, ChunkText(exchanges[i].chunks + 1)))
        /\ exchanges' = [exchanges EXCEPT ![i].chunks = @ + 1]
        /\ timers' = SaveEffect(chatSessionId, chatMessages')
        /\ UNCHANGED <<chatSessionId, isNewChatLoading, loads, initPc, newChat,
                       sends, newChats>>
        /\ UNCHANGED <<chatFrame, storage, uuids>>

\* the exchanges in flight without the i-th
Without(i) == SubSeq(exchanges, 1, i - 1) \o SubSeq(exchanges, i + 1, Len(exchanges))

\* onComplete of an exchange in flight: the text of the last chunk and the
\* references of the trailer (an empty body completes without any chunk)
onComplete ==
    \E i \in 1..Len(exchanges) :
        LET n    == exchanges[i].chunks
            refs == IF n = 0 THEN <<>> ELSE <<Reference(1)>>
        IN  /\ chatMessages' = ReplaceLast(chatMessages,
                                           TurnWithRefs(Bot, ChunkText(n), refs))
            /\ exchanges' = Without(i)
            /\ timers' = SaveEffect(chatSessionId, chatMessages')
            /\ UNCHANGED <<chatSessionId, isLoading, isNewChatLoading, loads,
                           initPc, newChat, sends, newChats>>
            /\ UNCHANGED <<chatFrame, storage, uuids>>

\* onError of an exchange in flight (the catch block does the same)
onError ==
    \E i \in 1..Len(exchanges) :
        /\ isLoading' = FALSE
        /\ chatMessages' = ReplaceLast(chatMessages, Turn(Bot, CHAT_FAILED))
        /\ exchanges' = Without(i)
        /\ timers' = SaveEffect(chatSessionId, chatMessages')
        /\ UNCHANGED <<chatSessionId, isNewChatLoading, loads, initPc, newChat,
                       sends, newChats>>
        /\ UNCHANGED <<chatFrame, storage, uuids>>

\* handleNewChat() up to the await of clearMessages(sessionId), whose
\* removeItem is queued at once
handleNewChat ==
    /\ ~isLoading
    /\ ~isNewChatLoading
    /\ newChats < MaxNewChats
    /\ isNewChatLoading' = TRUE
    /\ storage' = IF chatSessionId = "" THEN storage
                  ELSE RemoveKeys(storage, {keyFor(chatSessionId)})
    /\ newChat' = [pc |-> "cleared", id |-> "", old |-> chatSessionId]
    /\ newChats' = newChats + 1
    /\ UNCHANGED <<chatSessionId, chatMessages, isLoading, timers, loads,
                   exchanges, initPc, sends>>
    /\ UNCHANGED <<chatFrame, uuids>>

\* handleNewChat(): startNewConversation() stores a new id under the pointer
handleNewChatStart ==
    /\ newChat.pc = "cleared"
    /\ uuids' = uuids + 1
    /\ storage' = [storage EXCEPT ![SESSION_KEY] = Stored(IdText(Uuid(uuids + 1)))]
    /\ newChat' = [pc |-> "started", id |-> Uuid(uuids + 1), old |-> newChat.old]
    /\ UNCHANGED <<chatSessionId, chatMessages, isLoading, isNewChatLoading,
                   timers, loads, exchanges, initPc, sends, newChats>>
    /\ UNCHANGED chatFrame

\* handleNewChat() after the awaits: setSessionId(newId); setMessages([]);
\* finally setIsNewChatLoading(false)
handleNewChatDone ==
    /\ newChat.pc = "started"
    /\ chatSessionId' = newChat.id
    /\ chatMessages' = <<>>
    /\ SessionEffects(storage, newChat.id, <<>>)
    /\ isNewChatLoading' = FALSE
    /\ newChat' = [pc |-> "idle", id |-> "", old |-> newChat.old]
    /\ UNCHANGED <<isLoading, exchanges, initPc, sends, newChats>>
    /\ UNCHANGED <<chatFrame, uuids>>

\* ------------------------------------------------------------------------
\* The chat screen's language picker
\* ------------------------------------------------------------------------

\* values of CHAT_LANGUAGES
ChatLanguages == {DEFAULT_LANGUAGE, <<"a", "r", "a", "b", "i", "c">>}

\* messages.some((m) => m.sender === "user")
hasStartedChat(list) == \E i \in 1..Len(list) : Prop(list[i], K_sender) = JStr(User)

\* const canSelectLanguage = !hasStartedChat
canSelectLanguage(list) == ~hasStartedChat(list)

\* the string getChatLanguage / getLastChatLanguage resolve with, <<>> for null
LanguageAt(k) == IF storage[k].present THEN storage[k].raw ELSE <<>>

\* loadInitialLanguage(): getChatLanguage(sessionId) and getLastChatLanguage()
\* resolve; resolved = sessionLanguage || lastLanguage || DEFAULT_LANGUAGE
loadInitialLanguage ==
    /\ langLoad.pc = "start"
    /\ LET sessionLanguage == LanguageAt(languageKeyFor(langLoad.sid))
           lastLanguage    == LanguageAt(CHAT_LAST_LANGUAGE)
           resolved        == IF sessionLanguage # <<>> THEN sessionLanguage
                              ELSE IF lastLanguage # <<>> THEN lastLanguage
                              ELSE DEFAULT_LANGUAGE
       IN  langLoad' = [pc |-> "read", sid |-> langLoad.sid, resolved |-> resolved,
                        write |-> sessionLanguage = <<>>]
    /\ UNCHANGED <<selectedLanguage, isLanguageModalVisible>>
    /\ UNCHANGED <<streamVars, modalVars, storeVars, sessVars, chatVars,
                   progVars, upsertVars, authVars>>

\* loadInitialLanguage() after its reads: setSelectedLanguage(resolved) unless
\* the effect was cleaned up, and setChatLanguage(sessionId, resolved) when
\* the session had no language stored
loadInitialLanguageApply ==
    /\ langLoad.pc = "read"
    /\ selectedLanguage' = IF langLoad.sid = chatSessionId THEN langLoad.resolved
                           ELSE selectedLanguage
    /\ storage' = IF langLoad.write
                  THEN [storage EXCEPT ![languageKeyFor(langLoad.sid)] =
                                           Stored(langLoad.resolved)]
                  ELSE storage
    /\ langLoad' = [langLoad EXCEPT !.pc = "idle"]
    /\ UNCHANGED isLanguageModalVisible
    /\ UNCHANGED <<streamVars, modalVars, clock, ticks, lastOp, sessVars, chatVars,
                   progVars, upsertVars, authVars>>

\* handleOpenLanguagePicker()
handleOpenLanguagePicker ==
    /\ canSelectLanguage(chatMessages)
    /\ ~isLanguageModalVisible
    /\ isLanguageModalVisible' = TRUE
    /\ UNCHANGED <<selectedLanguage, langLoad>>
    /\ UNCHANGED <<streamVars, modalVars, storeVars, sessVars, chatVars,
                   progVars, upsertVars, authVars>>

\* handleSelectLanguage(language), called from a row of the open picker
handleSelectLanguage ==
    \E language \in ChatLanguages :
        /\ isLanguageModalVisible
        /\ canSelectLanguage(chatMessages)
        /\ selectedLanguage' = language
        /\ isLanguageModalVisible' = FALSE
        /\ storage' = [k \in Keys |->
                          IF k = CHAT_LAST_LANGUAGE THEN Stored(language)
                          ELSE IF chatSessionId # "" /\ k = languageKeyFor(chatSessionId)
                               THEN Stored(language)
                          ELSE storage[k]]
        /\ UNCHANGED langLoad
        /\ UNCHANGED <<streamVars, modalVars, clock, ticks, lastOp, sessVars, chatVars,
                       progVars, upsertVars, authVars>>

\* ------------------------------------------------------------------------
\* Lesson progress (utils/hikmahStorage.ts, hooks/useHikmahProgress.ts)
\* ------------------------------------------------------------------------

K_completedLessonIds ==
    <<"c", "o", "m", "p", "l", "e", "t", "e", "d", "L", "e", "s", "s", "o", "n",
      "I", "d", "s">>

\* { completedLessonIds: [], ts: 0 }
EmptyProgress == JObj(<< <<K_completedLessonIds, JArr(<<>>)>>, <<K_ts, JNum(0)>> >>)

\* what getProgress resolves with for the value under the key: the catch
\* block and the two early returns give the empty default, and nothing is
\* removed
GetProgressOutcome(item) ==
    IF NoRaw(item) THEN EmptyProgress
    ELSE LET p == JSONparse(item.raw)
         IN  IF ~p.ok THEN EmptyProgress
             ELSE IF Falsy(Prop(p.val, K_completedLessonIds)) THEN EmptyProgress
             ELSE p.val

\* getProgress(treeId)
getProgress ==
    \E t \in TreeIds :
        /\ progLast' = [called |-> TRUE, treeId |-> t, pre |-> progressStore[t],
                        result |-> GetProgressOutcome(progressStore[t]),
                        threw |-> FALSE]
        /\ UNCHANGED <<progressStore, completed, isLoaded, progLoads, prevToggle, toggles>>
        /\ UNCHANGED <<streamVars, modalVars, storeVars, sessVars, chatVars,
                       langVars, upsertVars, authVars>>

RECURSIVE Dedup(_)
\* Array.from(new Set(list)): the first occurrence of each element, in order
Dedup(list) ==
    IF list = <<>> THEN <<>>
    ELSE LET front == Dedup(SubSeq(list, 1, Len(list) - 1))
             last  == list[Len(list)]
         IN  IF \E i \in 1..Len(front) : front[i] = last THEN front
             ELSE Append(front, last)

\* the value setProgress stores
ProgressRaw(list, ts) ==
    Stored(JSONstringify(JObj(<< <<K_completedLessonIds,
                                   JArr([i \in 1..Len(Dedup(list)) |-> JStr(Dedup(list)[i])])>>,
                                 <<K_ts, JNum(ts)>> >>)))

L1 == <<"l", "1">>

L2 == <<"l", "2">>

\* a lesson that is no longer in the tree
L9 == <<"l", "9">>

\* tree.lessons.map((l) => String(l.id))
LessonIds == <<L1, L2>>

\* validIds.has(id)
IsValidId(id) == \E i \in 1..Len(LessonIds) : LessonIds[i] = id

\* list.filter((id) => validIds.has(id))
FilterValid(list) == SelectSeq(list, IsValidId)

\* data.completedLessonIds || [], the ids as strings
CompletedOf(data) ==
    LET ids == Prop(data, K_completedLessonIds)
    IN  IF ids.t = "arr" THEN [i \in 1..Len(ids.v) |-> ids.v[i].v] ELSE <<>>

total == Len(LessonIds)

completedCount == Len(FilterValid(completed))

\* total ? Math.round((completedCount / total) * 100) : 0
percent ==
    IF total = 0 THEN 0 ELSE (2 * completedCount * 100 + total) \div (2 * total)

\* a plausible slip: the lesson is appended without looking for it
ToggleAppends(prev, idStr) == Append(prev, idStr)

\* prev.includes(idStr) ? prev.filter((id) => id !== idStr) : [...prev, idStr]
ToggleNext(prev, idStr) ==
    IF \E i \in 1..Len(prev) : prev[i] = idStr
    THEN SelectSeq(prev, LAMBDA id : id # idStr)
    ELSE Append(prev, idStr)

\* how many times loadProgress runs (on mount, on focus)
MaxLoads == 2

\* how many times the user toggles a lesson
MaxToggles == 3

\* loadProgress() for tree t1: setIsLoaded(false) and getProgress(treeId),
\* whose getItem is queued at once
loadProgress ==
    /\ Len(progLoads) < MaxLoads
    /\ isLoaded' = FALSE
    /\ progLoads' = Append(progLoads, GetProgressOutcome(progressStore["t1"]))
    /\ UNCHANGED <<progressStore, progLast, completed, prevToggle, toggles>>
    /\ UNCHANGED <<streamVars, modalVars, storeVars, sessVars, chatVars,
                   langVars, upsertVars, authVars>>

\* getProgress(treeId).then(...): setCompleted(data.completedLessonIds || []);
\* setIsLoaded(true); when isLoaded has changed, the clean-up effect drops
\* the stale ids and stores the cleaned list
loadProgressThen ==
    /\ progLoads # <<>>
    /\ LET hydrated == CompletedOf(Head(progLoads))
           cleaned  == FilterValid(hydrated)
       IN  IF ~isLoaded /\ Len(cleaned) # Len(hydrated)
           THEN /\ completed' = cleaned
                /\ progressStore' = [progressStore EXCEPT !["t1"] = ProgressRaw(cleaned, clock)]
           ELSE /\ completed' = hydrated
                /\ UNCHANGED progressStore
    /\ isLoaded' = TRUE
    /\ progLoads' = Tail(progLoads)
    /\ prevToggle' = [id |-> "", before |-> {}]
    /\ UNCHANGED <<progLast, toggles>>
    /\ UNCHANGED <<streamVars, modalVars, storeVars, sessVars, chatVars,
                   langVars, upsertVars, authVars>>

\* toggleComplete(lessonId) for tree t1
toggleComplete ==
    \E i \in 1..Len(LessonIds) :
        LET idStr == LessonIds[i]
            next  == ToggleNext(completed, idStr)
        IN  /\ toggles < MaxToggles
            /\ completed' = next
            /\ progressStore' = [progressStore EXCEPT !["t1"] = ProgressRaw(next, clock)]
            /\ prevToggle' = [id |-> idStr,
                              before |-> {completed[k] : k \in 1..Len(completed)}]
            /\ toggles' = toggles + 1
            /\ UNCHANGED <<progLast, isLoaded, progLoads>>
            /\ UNCHANGED <<streamVars, modalVars, storeVars, sessVars, chatVars,
                           langVars, upsertVars, authVars>>

\* ------------------------------------------------------------------------
\* Remote lesson progress (utils/api.ts upsertUserProgress, lesson screen)
\* ------------------------------------------------------------------------

upsertFrame ==
    <<streamVars, modalVars, storeVars, sessVars, chatVars, langVars, progVars, authVars>>

\* the lesson screen calls upsertUserProgress for (USER_ID, lessonId) and
\* does not await it: the call sends GET /user-progress. The completion
\* handler leaves the screen, so no page change follows it
upsertUserProgress(c) ==
    /\ upCall[c] = "idle"
    /\ c # "complete" => upCall["complete"] = "idle"
    /\ upCall' = [upCall EXCEPT ![c] = "listing"]
    /\ UNCHANGED <<serverRecords, requests>>
    /\ UNCHANGED upsertFrame

\* the server answers the GET with the records it holds at that moment
listUserProgress(c) ==
    /\ upCall[c] = "listing"
    /\ upCall' = [upCall EXCEPT ![c] = IF serverRecords > 0 THEN "found" ELSE "missing"]
    /\ UNCHANGED <<serverRecords, requests>>
    /\ UNCHANGED upsertFrame

\* the GET fails: listUserProgress throws and the caller's catch logs it
listUserProgressFails(c) ==
    /\ upCall[c] = "listing"
    /\ upCall' = [upCall EXCEPT ![c] = "done"]
    /\ UNCHANGED <<serverRecords, requests>>
    /\ UNCHANGED upsertFrame

\* existing.length > 0: updateUserProgress(first.id, rest) sends the PATCH
updateUserProgress(c) ==
    /\ upCall[c] = "found"
    /\ upCall' = [upCall EXCEPT ![c] = "patching"]
    /\ requests' = [requests EXCEPT !.patch = @ + 1]
    /\ UNCHANGED serverRecords
    /\ UNCHANGED upsertFrame

\* otherwise createUserProgress(...) sends the POST
createUserProgress(c) ==
    /\ upCall[c] = "missing"
    /\ upCall' = [upCall EXCEPT ![c] = "posting"]
    /\ requests' = [requests EXCEPT !.post = @ + 1]
    /\ UNCHANGED serverRecords
    /\ UNCHANGED upsertFrame

\* the server handles the POST or the PATCH and the call settles
serverResponds(c) ==
    /\ upCall[c] \in {"posting", "patching"}
    /\ serverRecords' = IF upCall[c] = "posting" THEN serverRecords + 1 ELSE serverRecords
    /\ upCall' = [upCall EXCEPT ![c] = "done"]
    /\ UNCHANGED requests
    /\ UNCHANGED upsertFrame

\* ------------------------------------------------------------------------
\* Authentication (hooks/useAuth.tsx, utils/auth.ts, app/_layout.tsx)
\* ------------------------------------------------------------------------

authFrame ==
    <<streamVars, modalVars, storeVars, sessVars, chatVars, langVars, progVars, upsertVars>>

\* how many times the user presses Sign in or Sign out
MaxAuthCalls == 3

\* the redirect effect of RootNavigator for a new status: nothing while
\* loading, /login unless signed in, /(tabs) when signed in
Redirect(st, login) == IF st = "loading" THEN login ELSE st # "signedIn"

\* the restore effect: loadTokens() finds nothing or throws (signedOut), or
\* finds tokens and goes on to refresh()
restore ==
    /\ "restore" \in authOps
    /\ \E threw \in BOOLEAN :
          IF threw \/ storedTokens = "none"
          THEN /\ authStatus' = "signedOut"
               /\ authOps' = authOps \ {"restore"}
          ELSE /\ authStatus' = authStatus
               /\ authOps' = (authOps \ {"restore"}) \cup {"refresh"}
    /\ onLogin' = Redirect(authStatus', onLogin)
    /\ UNCHANGED <<authToken, authCalls, storedTokens>>
    /\ UNCHANGED authFrame

\* refresh(): getValidAccessToken() gives the stored token, a refreshed
\* one, null, or throws; every path ends in signedIn or signedOut
refresh ==
    /\ "refresh" \in authOps
    /\ \E refreshed \in BOOLEAN :
          LET token == IF storedTokens = "valid" THEN "tok"
                       ELSE IF storedTokens = "expired" /\ refreshed THEN "tok"
                       ELSE ""
          IN  /\ authToken' = token
              /\ authStatus' = IF token # "" THEN "signedIn" ELSE "signedOut"
              /\ storedTokens' = IF storedTokens = "expired" /\ refreshed
                                 THEN "valid" ELSE storedTokens
    /\ authOps' = authOps \ {"refresh"}
    /\ onLogin' = Redirect(authStatus', onLogin)
    /\ UNCHANGED authCalls
    /\ UNCHANGED authFrame

\* the login screen's button: signIn() sets "loading" and awaits
\* signInWithCognitoHostedUI()
signIn ==
    /\ onLogin
    /\ "signIn" \notin authOps
    /\ authCalls < MaxAuthCalls
    /\ authStatus' = "loading"
    /\ authOps' = authOps \cup {"signIn"}
    /\ authCalls' = authCalls + 1
    /\ UNCHANGED <<authToken, storedTokens, onLogin>>
    /\ UNCHANGED authFrame

\* signInWithCognitoHostedUI() returns the tokens it saved, and signIn goes
\* on to setStatus("signedIn")
signInResolves ==
    /\ "signIn" \in authOps
    /\ storedTokens' = "valid"
    /\ authToken' = "tok"
    /\ authStatus' = "signedIn"
    /\ authOps' = authOps \ {"signIn"}
    /\ onLogin' = Redirect(authStatus', onLogin)
    /\ UNCHANGED authCalls
    /\ UNCHANGED authFrame

\* signInWithCognitoHostedUI() throws (the browser was dismissed, the
\* exchange failed): signIn has no catch, the login screen shows the error
signInRejects ==
    /\ "signIn" \in authOps
    /\ authOps' = authOps \ {"signIn"}
    /\ UNCHANGED <<authStatus, authToken, authCalls, storedTokens, onLogin>>
    /\ UNCHANGED authFrame

\* the settings button: signOut() sets "loading" and awaits authSignOut()
signOut ==
    /\ ~onLogin
    /\ "signOut" \notin authOps
    /\ authCalls < MaxAuthCalls
    /\ authStatus' = "loading"
    /\ authOps' = authOps \cup {"signOut"}
    /\ authCalls' = authCalls + 1
    /\ UNCHANGED <<authToken, storedTokens, onLogin>>
    /\ UNCHANGED authFrame

\* authSignOut() has cleared the tokens; signOut goes on to
\* setStatus("signedOut")
signOutResolves ==
    /\ "signOut" \in authOps
    /\ storedTokens' = "none"
    /\ authToken' = ""
    /\ authStatus' = "signedOut"
    /\ authOps' = authOps \ {"signOut"}
    /\ onLogin' = Redirect(authStatus', onLogin)
    /\ UNCHANGED authCalls
    /\ UNCHANGED authFrame

\* clearTokens() throws: signOut has no catch, the settings screen shows
\* the error
signOutRejects ==
    /\ "signOut" \in authOps
    /\ authOps' = authOps \ {"signOut"}
    /\ UNCHANGED <<authStatus, authToken, authCalls, storedTokens, onLogin>>
    /\ UNCHANGED authFrame

\* time passes: isExpired(tokens.accessTokenExpiresAt) becomes true
tokensExpire ==
    /\ storedTokens = "valid"
    /\ storedTokens' = "expired"
    /\ UNCHANGED <<authStatus, authToken, authOps, authCalls, onLogin>>
    /\ UNCHANGED authFrame

\* ------------------------------------------------------------------------
\* Specifications
\* ------------------------------------------------------------------------

Init == InitStream /\ InitModal /\ InitStoreIdle /\ InitSessIdle /\ InitChatIdle /\ InitMoreIdle

Next ==
    \/ sendChatMessageStream
    \/ XhrOnProgress
    \/ XhrOnLoad
    \/ XhrOnError
    \/ XhrOnTimeout
    \/ sendChatMessage
    \/ handleAsk
    \/ handleAskSettle
    \/ handleClose

Spec == Init /\ [][Next]_vars

\* The timer of xhr.timeout, once set, fires unless the request ends first.
\* Nothing obliges the server to send anything or to close the connection.
FairSpec == Spec /\ WF_vars(XhrOnTimeout)

StoreInit == InitStream /\ InitModal /\ InitStore /\ InitSessIdle /\ InitChatIdle /\ InitMoreIdle

StoreNext ==
    \/ loadMessages
    \/ purgeExpiredSessions
    \/ saveMessages
    \/ clearMessages
    \/ Tick

\* the session store, called by one caller at a time
SpecStore == StoreInit /\ [][StoreNext]_vars

\* how many calls of one run meet a failing AsyncStorage
MaxFaults == 1

\* the app starts with or without a session pointer and with whatever an
\* earlier run left under the pointer's session; AsyncStorage can fail
SessionInit ==
    /\ InitStream /\ InitModal /\ InitChatIdle /\ InitMoreIdle
    /\ \E ptr \in {Absent, Stored(IdText("s1"))},
          r1 \in {Absent, RecordAt(StartClock - 1000),
                  RecordAt(StartClock - EXPIRES_MS - 1000),
                  Stored(<<"{", "n", "o", "t", " ", "j", "s", "o", "n">>)} :
          storage = [k \in Keys |->
                        IF k = SESSION_KEY THEN ptr
                        ELSE IF k = keyFor("s1") THEN r1
                        ELSE Absent]
    /\ clock = StartClock
    /\ ticks = 0
    /\ lastOp = NoOp
    /\ faults = MaxFaults
    /\ call = [p \in Callers |-> Idle]
    /\ uuids = 0
    /\ sessLog = <<>>

SessionNext ==
    \/ getOrCreateSessionId
    \/ getOrCreateGetItem
    \/ getOrCreateSetItem
    \/ startNewConversation
    \/ startSetItem
    \/ loadMessages

\* the session pointer with overlapping session-id calls and a failing
\* AsyncStorage, and loadMessages under the ids the calls return
SpecSession == SessionInit /\ [][SessionNext]_vars

\* AsyncStorage is failing: the app starts with whatever earlier runs left
\* in storage
FaultyInit ==
    /\ InitStream /\ InitModal /\ InitChatIdle /\ InitMoreIdle
    /\ \E r1 \in InitialRaws, lang \in {Absent} \cup {Stored(l) : l \in Languages} :
          storage = [k \in Keys |->
                        IF k = SESSION_KEY THEN Stored(IdText("s1"))
                        ELSE IF k = keyFor("s1") THEN r1
                        ELSE IF k \in {languageKeyFor("s1"), CHAT_LAST_LANGUAGE} THEN lang
                        ELSE Absent]
    /\ clock = StartClock
    /\ ticks = 0
    /\ lastOp = NoOp
    /\ faults = MaxFaults
    /\ call = [p \in Callers |-> Idle]
    /\ uuids = 0
    /\ sessLog = <<>>

\* the calls of the session store and of the language settings that meet a
\* failing AsyncStorage operation
FaultyNext ==
    \/ loadMessages /\ lastOp'.fault # {}
    \/ purgeExpiredSessions /\ lastOp'.fault # {}
    \/ saveMessages /\ lastOp'.fault # {}
    \/ clearMessages /\ lastOp'.fault # {}
    \/ getChatLanguage /\ lastOp'.fault # {}
    \/ setChatLanguage /\ lastOp'.fault # {}
    \/ clearChatLanguage /\ lastOp'.fault # {}
    \/ getLastChatLanguage /\ lastOp'.fault # {}
    \/ setLastChatLanguage /\ lastOp'.fault # {}

\* the session store and the language settings while AsyncStorage fails
SpecFaulty == FaultyInit /\ [][FaultyNext]_vars

\* the app starts with or without a session pointer and with whatever an
\* earlier run left under the pointer's session; AsyncStorage works
ChatInit ==
    /\ InitStream /\ InitModal /\ InitSessIdle /\ InitChatIdle /\ InitMoreIdle
    /\ \E ptr \in {Absent, Stored(IdText("s1"))},
          r1 \in {Absent, RecordAt(StartClock - 1000),
                  RecordAt(StartClock - EXPIRES_MS - 1000)} :
          storage = [k \in Keys |->
                        IF k = SESSION_KEY THEN ptr
                        ELSE IF k = keyFor("s1") THEN r1
                        ELSE Absent]
    /\ clock = StartClock
    /\ ticks = 0
    /\ lastOp = NoOp

ChatNext ==
    \/ initializePurge
    \/ initializeSession
    \/ loadInitialMessages
    \/ saveTimerFires
    \/ handleSendMessage
    \/ onChunk
    \/ onComplete
    \/ onError
    \/ handleNewChat
    \/ handleNewChatStart
    \/ handleNewChatDone

\* the chat screen: its effects, the user's taps and the callbacks of the
\* exchanges, interleaved at every await
SpecChat == ChatInit /\ [][ChatNext]_vars

\* the steps a set timer and the calls of a working AsyncStorage take by
\* themselves
Settle ==
    \/ saveTimerFires
    \/ initializePurge
    \/ initializeSession
    \/ loadInitialMessages
    \/ handleNewChatStart
    \/ handleNewChatDone

\* one of these steps can be taken: each of them changes what its guard reads
Unsettled ==
    \/ timers # <<>>
    \/ initPc # "done"
    \/ loads # <<>>
    \/ newChat.pc # "idle"

\* A timer that stays set fires, and the calls of a working AsyncStorage
\* settle: weak fairness of Settle, with ENABLED <<Settle>>_vars written out
\* as Unsettled. Nothing obliges the server to answer.
FairSpecChat == SpecChat /\ ([]<>(~Unsettled) \/ []<><<Settle>>_vars)

\* the chat screen right after setSessionId("s1"): loadMessages and the
\* language reads are in flight, the save timer is set; storage holds what
\* earlier runs left for the session
LangInit ==
    /\ InitStream /\ InitModal /\ InitSessIdle
    /\ \E r1 \in {Absent, RecordAt(StartClock - 1000)},
          sl \in {Absent} \cup {Stored(l) : l \in ChatLanguages},
          ll \in {Absent} \cup {Stored(l) : l \in ChatLanguages} :
          /\ storage = [k \in Keys |->
                           IF k = SESSION_KEY THEN Stored(IdText("s1"))
                           ELSE IF k = keyFor("s1") THEN r1
                           ELSE IF k = languageKeyFor("s1") THEN sl
                           ELSE IF k = CHAT_LAST_LANGUAGE THEN ll
                           ELSE Absent]
          /\ loads = <<[sid |-> "s1", initial |-> LoadOutcome(r1, StartClock).result]>>
    /\ clock = StartClock
    /\ ticks = 0
    /\ lastOp = NoOp
    /\ chatSessionId = "s1"
    /\ chatMessages = <<>>
    /\ isLoading = FALSE
    /\ isNewChatLoading = FALSE
    /\ timers = <<[sid |-> "s1", msgs |-> <<>>, latest |-> TRUE]>>
    /\ exchanges = <<>>
    /\ initPc = "done"
    /\ newChat = [pc |-> "idle", id |-> "", old |-> ""]
    /\ sends = 0
    /\ newChats = 0
    /\ selectedLanguage = DEFAULT_LANGUAGE
    /\ isLanguageModalVisible = FALSE
    /\ langLoad = [pc |-> "start", sid |-> "s1", resolved |-> <<>>, write |-> FALSE]
    /\ InitProgIdle /\ InitUpsertIdle /\ InitAuthIdle

LangNext ==
    \/ loadInitialMessages
    \/ loadInitialLanguage
    \/ loadInitialLanguageApply
    \/ handleOpenLanguagePicker
    \/ handleSelectLanguage
    \/ handleSendMessage
    \/ saveTimerFires

\* the language picker of the chat screen while the session's turns and
\* language are being loaded
SpecLang == LangInit /\ [][LangNext]_vars

\* values found under progress:{treeId} when the app starts: what
\* setProgress wrote in earlier runs, and values that are not progress
\* records
ProgressRaws ==
    { Absent,
      ProgressRaw(<<L1>>, StartClock - 1000),
      Stored(<<"{", "n", "o", "t", " ", "j", "s", "o", "n">>),
      Stored(JSONstringify(JNull)),
      Stored(JSONstringify(JArr(<<JStr(L1)>>))),
      Stored(JSONstringify(JObj(<< <<K_ts, JNum(1)>> >>))),
      Stored(JSONstringify(JObj(<< <<K_completedLessonIds, JNum(5)>>,
                                   <<K_ts, JNum(1)>> >>))) }

ProgressReadInit ==
    /\ InitStream /\ InitModal /\ InitStoreIdle /\ InitSessIdle /\ InitChatIdle
    /\ InitLangIdle /\ InitUpsertIdle /\ InitAuthIdle
    /\ progressStore \in [TreeIds -> ProgressRaws]
    /\ progLast = NoGet
    /\ completed = <<>>
    /\ isLoaded = FALSE
    /\ progLoads = <<>>
    /\ prevToggle = [id |-> "", before |-> {}]
    /\ toggles = 0

\* getProgress on whatever is stored
SpecProgressRead == ProgressReadInit /\ [][getProgress]_vars

\* what setProgress can have stored for tree t1 in earlier runs, some of it
\* for a lesson that has left the tree since
WrittenProgress ==
    {Absent} \cup {ProgressRaw(list, StartClock - 1000) :
                      list \in {<<>>, <<L1>>, <<L2, L1>>, <<L9>>, <<L1, L9>>}}

ProgressInit ==
    /\ InitStream /\ InitModal /\ InitStoreIdle /\ InitSessIdle /\ InitChatIdle
    /\ InitLangIdle /\ InitUpsertIdle /\ InitAuthIdle
    /\ \E w \in WrittenProgress :
          progressStore = [t \in TreeIds |-> IF t = "t1" THEN w ELSE Absent]
    /\ progLast = NoGet
    /\ completed = <<>>
    /\ isLoaded = FALSE
    /\ progLoads = <<>>
    /\ prevToggle = [id |-> "", before |-> {}]
    /\ toggles = 0

ProgressNext ==
    \/ loadProgress
    \/ loadProgressThen
    \/ toggleComplete

\* useHikmahProgress for tree t1: hydration, clean-up of stale ids, toggles
SpecProgress == ProgressInit /\ [][ProgressNext]_vars

\* the lesson screen is open; the server holds no record for the lesson or
\* one from an earlier visit
UpsertInit ==
    /\ InitStream /\ InitModal /\ InitStoreIdle /\ InitSessIdle /\ InitChatIdle
    /\ InitLangIdle /\ InitProgIdle /\ InitAuthIdle
    /\ upCall = [c \in UpsertCallers |-> "idle"]
    /\ serverRecords \in {0, 1}
    /\ requests = [post |-> 0, patch |-> 0]

UpsertNext ==
    \E c \in UpsertCallers :
        \/ upsertUserProgress(c)
        \/ listUserProgress(c)
        \/ listUserProgressFails(c)
        \/ updateUserProgress(c)
        \/ createUserProgress(c)
        \/ serverResponds(c)

\* two page changes and the completion of one lesson, none awaited
SpecUpsert == UpsertInit /\ [][UpsertNext]_vars

\* the app starts: status is "loading" and the restore effect has begun
AuthInit ==
    /\ InitStream /\ InitModal /\ InitStoreIdle /\ InitSessIdle /\ InitChatIdle
    /\ InitLangIdle /\ InitProgIdle /\ InitUpsertIdle
    /\ authStatus = "loading"
    /\ authToken = ""
    /\ authOps = {"restore"}
    /\ authCalls = 0
    /\ storedTokens \in {"none", "valid", "expired"}
    /\ onLogin = FALSE

AuthNext ==
    \/ restore
    \/ refresh
    \/ signIn
    \/ signInResolves
    \/ signInRejects
    \/ signOut
    \/ signOutResolves
    \/ signOutRejects
    \/ tokensExpire

\* AuthProvider with the navigator that follows its status
SpecAuth == AuthInit /\ [][AuthNext]_vars

\* ------------------------------------------------------------------------
\* Properties of the streamer
\* ------------------------------------------------------------------------

ChunkCalls == {i \in 1..Len(log) : log[i].cb = "chunk"}

TerminalCalls == {i \in 1..Len(log) : log[i].cb \in {"complete", "error"}}

FullBody == ResponseTextAt(Len(packets))

\* the request ended with the load event (not with error or timeout)
Loaded == xhrState = "done" /\ promiseError.name \notin {"network", "timeout"}

\* C1: a stream started by sendChatMessage calls its terminal handler
\* (onComplete or onError) at most once while it runs and exactly once by the
\* time sendChatMessage returns, and no onChunk call follows the terminal call.
C1_TerminalOnceNoChunkAfter ==
    kind = "chat" =>
        /\ Cardinality(TerminalCalls) <= 1
        /\ \A i \in TerminalCalls : i = Len(log)
        /\ (pc = "done") = (Cardinality(TerminalCalls) = 1)

C1_Witness ==
    /\ kind = "chat"
    /\ pc = "done"
    /\ Cardinality(ChunkCalls) >= 2
    /\ log[Len(log)].cb = "complete"

\* C2: within one stream every text passed to onChunk extends the text of
\* every earlier onChunk call (it has the earlier text as a prefix), the
\* emission made by the load handler included.
C2_ChunksPrefixMonotone ==
    \A i, j \in ChunkCalls : i < j => IsPrefix(log[i].text, log[j].text)

C2_Witness ==
    /\ kind = "elab"
    /\ promiseState = "resolved"
    /\ Cardinality(ChunkCalls) >= 3
    /\ exposed # <<>>
    /\ exposed[Len(exposed)] # FullBody

\* C3: every onChunk call of a stream carries a text strictly longer than the
\* text of the onChunk call before it, so nothing is emitted when a progress
\* event or the load event finds the response length unchanged.
C3_ChunksStrictlyLonger ==
    \A i, j \in ChunkCalls : i < j => Len(log[i].text) < Len(log[j].text)

C3_Witness ==
    /\ kind = "chat"
    /\ promiseState = "resolved"
    /\ Cardinality(ChunkCalls) >= 2
    /\ Len(exposed) > Cardinality(ChunkCalls)
    /\ exposed[Len(exposed)] = FullBody

Hel == <<"H", "e", "l">>

Hello == <<"H", "e", "l", "l", "o">>

HelloWor == <<"H", "e", "l", "l", "o", " ", "w", "o", "r">>

HelloWorld == <<"H", "e", "l", "l", "o", " ", "w", "o", "r", "l", "d">>

\* the trailer item {a: 1}
ItemA1 == JObj(<< <<(<<"a">>), JNum(1)>> >>)

\* the scenario: "Hel", "Hello", "Hello wor" on three progress events, the
\* complete body only at completion with status 200, sendChatMessage returned
ScenarioRan ==
    /\ kind = "chat"
    /\ packets = ScenarioPackets
    /\ status = 200
    /\ exposed = <<Hel, Hello, HelloWor>>
    /\ Loaded
    /\ pc = "done"

\* C4 as claimed: in the scenario the subscriber receives exactly three chunk
\* calls and then one completion call with main text "Hello world" and
\* trailer items [{a:1}].
C4_ScenarioAsClaimed ==
    ScenarioRan =>
        log = <<ChunkCall(Hel), ChunkCall(Hello), ChunkCall(HelloWor),
                CompleteCall(HelloWorld, <<ItemA1>>)>>

\* C4 (amended): in the scenario the subscriber receives four chunk calls,
\* "Hel", "Hello", "Hello wor" and, from the load handler, the complete body
\* with the separator and the trailer text, and then exactly one completion
\* call with main text "Hello world" and an empty trailer list (the trailer
\* object names its array "items", not "references").
C4_ScenarioAmended ==
    ScenarioRan =>
        log = <<ChunkCall(Hel), ChunkCall(Hello), ChunkCall(HelloWor),
                ChunkCall(FullBody),
                CompleteCall(HelloWorld, <<>>)>>

C4_Witness == ScenarioRan /\ Len(log) = 5

\* C5: once the caller has closed the modal with a stream in flight, no
\* further onChunk emission reaches it and the XMLHttpRequest is aborted.
C5_CancelStopsEmissions ==
    abandonedAt >= 0 => (Len(log) = abandonedAt /\ xhrState = "aborted")

\* C6: every stream promise (chat and elaboration) is eventually settled:
\* when the server never completes, the timeout rejects it.
C6_NoStreamPendingForever ==
    (promiseState = "pending") ~> (promiseState \in {"resolved", "rejected"})

\* C7 as claimed: a load with a non-2xx status rejects with the status code
\* and the body text, and a load with any 2xx status resolves with the
\* complete text.
C7_Any2xxResolves ==
    Loaded =>
        IF status >= 200 /\ status < 300
        THEN promiseState = "resolved" /\ promiseValue = FullBody
        ELSE /\ promiseState = "rejected"
             /\ promiseError.status = status
             /\ (FullBody # <<>> => promiseError.text = FullBody)

\* C7 (amended): a load with status 200 resolves with the complete text; a
\* load with any other status (other 2xx statuses included) rejects with an
\* error carrying the status code and the body text, or the status text when
\* the body is empty; sendChatMessage reports a rejection through onError and
\* a resolution through onComplete, never the other way round.
C7_Only200Resolves ==
    /\ Loaded =>
        IF status = 200
        THEN promiseState = "resolved" /\ promiseValue = FullBody
        ELSE /\ promiseState = "rejected"
             /\ promiseError = HttpError(status, ErrorTextOf(FullBody))
    /\ (kind = "chat" /\ pc = "done") =>
        /\ (promiseState = "rejected") = (log[Len(log)] = ErrorCall(promiseError))
        /\ (promiseState = "resolved") = (log[Len(log)].cb = "complete")

C7_Witness ==
    /\ Loaded
    /\ status = 204
    /\ promiseState = "rejected"
    /\ FullBody # <<>>
    /\ pc = "done"

\* ------------------------------------------------------------------------
\* Properties of the session store
\* ------------------------------------------------------------------------

\* the value under the key of the last call before the call
PreItem == lastOp.pre[keyFor(lastOp.id)]

InvalidJson(item) == item.present /\ ~JSONparse(item.raw).ok

\* valid JSON of the shape { ts: number, messages: array }
WellShaped(item) ==
    /\ item.present
    /\ JSONparse(item.raw).ok
    /\ LET v == JSONparse(item.raw).val
       IN  /\ v.t = "obj"
           /\ HasKey(v, K_ts) /\ GetKey(v, K_ts).t = "num"
           /\ HasKey(v, K_messages) /\ GetKey(v, K_messages).t = "arr"

WrongShape(item) == item.present /\ JSONparse(item.raw).ok /\ ~WellShaped(item)

TsOf(item) == GetKey(JSONparse(item.raw).val, K_ts).v

MessagesOf(item) == GetKey(JSONparse(item.raw).val, K_messages).v

\* written more than the TTL before `at`
PastTtl(item, at) == WellShaped(item) /\ TsOf(item) + EXPIRES_MS < at

MessageKeys == {keyFor(id) : id \in SessionIds}

\* C8: loadMessages never throws; it returns the empty list when the key is
\* absent, holds invalid JSON, holds JSON of the wrong shape or is past its
\* TTL, and in the malformed and expired cases the key is gone afterwards.
C8_LoadSelfHeals ==
    lastOp.name = "load" =>
        LET bad == InvalidJson(PreItem) \/ WrongShape(PreItem) \/ PastTtl(PreItem, lastOp.at)
        IN  /\ ~lastOp.threw
            /\ (~PreItem.present \/ bad) => lastOp.result = <<>>
            /\ bad => ~storage[keyFor(lastOp.id)].present

\* C9: a well-shaped record written more than the TTL before now is absent
\* after loadMessages and after purgeExpiredSessions, and one written at most
\* the TTL before now survives both unchanged (loadMessages returns its
\* turns); both calls draw the line at the same instant, exactly now - TTL
\* counting as not expired.
C9_TtlBoundary ==
    /\ (lastOp.name = "load" /\ WellShaped(PreItem)) =>
          IF TsOf(PreItem) + EXPIRES_MS < lastOp.at
          THEN ~storage[keyFor(lastOp.id)].present /\ lastOp.result = <<>>
          ELSE storage[keyFor(lastOp.id)] = PreItem /\ lastOp.result = MessagesOf(PreItem)
    /\ lastOp.name = "purge" =>
          \A k \in MessageKeys :
              WellShaped(lastOp.pre[k]) =>
                  IF TsOf(lastOp.pre[k]) + EXPIRES_MS < lastOp.at
                  THEN ~storage[k].present
                  ELSE storage[k] = lastOp.pre[k]

C9_Witness ==
    /\ lastOp.name = "purge"
    /\ WellShaped(lastOp.pre[keyFor("s1")])
    /\ TsOf(lastOp.pre[keyFor("s1")]) = lastOp.at - EXPIRES_MS
    /\ storage[keyFor("s1")].present
    /\ WellShaped(lastOp.pre[keyFor("s2")])
    /\ TsOf(lastOp.pre[keyFor("s2")]) = lastOp.at - EXPIRES_MS - 1000
    /\ ~storage[keyFor("s2")].present

\* the TTL the documentation states: 24 hours
DocumentedTtlMs == 24 * HourMs

\* C10: a well-shaped record saved less than 24 hours ago is returned by
\* loadMessages and is left in place by loadMessages and by
\* purgeExpiredSessions.
C10_TtlIs24Hours ==
    /\ (/\ lastOp.name = "load"
        /\ WellShaped(PreItem)
        /\ lastOp.at - TsOf(PreItem) < DocumentedTtlMs) =>
          /\ lastOp.result = MessagesOf(PreItem)
          /\ storage[keyFor(lastOp.id)] = PreItem
    /\ lastOp.name = "purge" =>
          \A k \in MessageKeys :
              (WellShaped(lastOp.pre[k]) /\ lastOp.at - TsOf(lastOp.pre[k]) < DocumentedTtlMs)
                  => storage[k] = lastOp.pre[k]

\* C11: after purgeExpiredSessions no messages key remains whose value
\* loadMessages would reject: every remaining value is a record of the shape
\* { ts: number, messages: array } that is not past its TTL, and every key
\* loadMessages would delete as malformed or expired has been deleted.
C11_PurgeCoversLoadChecks ==
    lastOp.name = "purge" =>
        \A k \in MessageKeys :
            /\ storage[k].present =>
                  WellShaped(storage[k]) /\ ~PastTtl(storage[k], lastOp.at)
            /\ LoadOutcome(lastOp.pre[k], lastOp.at).remove => ~storage[k].present

\* the references of a turn; a turn without the member has none
RefsOf(turn) ==
    IF Prop(turn, K_references).t = "arr" THEN Prop(turn, K_references).v ELSE <<>>

\* the loaded reference has the allow-listed fields of the input with their
\* values and nothing else
RestrictsTo(loaded, input) ==
    LET allowed == {AllowedFields[i] : i \in 1..Len(AllowedFields)}
    IN  /\ loaded.t = "obj"
        /\ {loaded.v[i][1] : i \in 1..Len(loaded.v)} \subseteq allowed
        /\ \A f \in allowed : Prop(loaded, f) = Prop(input, f)

TurnPreserved(loaded, input) ==
    /\ Prop(loaded, K_sender) = Prop(input, K_sender)
    /\ Prop(loaded, K_text) = Prop(input, K_text)
    /\ Len(RefsOf(loaded)) = Min(Len(RefsOf(input)), 10)
    /\ \A i \in 1..Len(RefsOf(loaded)) : RestrictsTo(RefsOf(loaded)[i], RefsOf(input)[i])

TurnsPreserved(loaded, input) ==
    /\ Len(loaded) = Len(input)
    /\ \A i \in 1..Len(loaded) : TurnPreserved(loaded[i], input[i])

\* C12: saveMessages(id, turns) replaces the record under the key by one
\* stamped with the current time; a loadMessages(id) that follows within the
\* TTL returns a list of the same length and order, each turn with its sender
\* and text and with at most 10 references, the first 10 of the input
\* restricted to the allow-listed fields; saving a list that was just loaded
\* stores the same turns again.
C12_SaveLoadRoundTrip ==
    /\ [](lastOp.name = "save" /\ lastOp.id # "" =>
            /\ WellShaped(storage[keyFor(lastOp.id)])
            /\ TsOf(storage[keyFor(lastOp.id)]) = lastOp.at
            /\ TurnsPreserved(MessagesOf(storage[keyFor(lastOp.id)]), lastOp.result))
    /\ [][(/\ lastOp.name = "save" /\ lastOp.id # ""
           /\ lastOp'.name = "load" /\ lastOp'.id = lastOp.id
           /\ lastOp'.at - lastOp.at <= EXPIRES_MS)
          => TurnsPreserved(lastOp'.result, lastOp.result)]_vars
    /\ [][(/\ lastOp.name = "load" /\ lastOp.result # <<>>
           /\ lastOp'.name = "save" /\ lastOp'.id # ""
           /\ lastOp'.result = lastOp.result)
          => MessagesOf(storage'[keyFor(lastOp'.id)]) = lastOp.result]_vars

\* a list with a turn of ten references was loaded: it can only come from
\* saving the turn that had eleven
C12_Witness ==
    /\ lastOp.name = "load"
    /\ Len(lastOp.result) = 2
    /\ Len(RefsOf(lastOp.result[2])) = 10
    /\ Prop(lastOp.result[2], K_text) = JStr(<<>>)

\* ------------------------------------------------------------------------
\* Properties of the session pointer
\* ------------------------------------------------------------------------

\* the session-id call that returned last
LastReturn == sessLog[Len(sessLog)]

\* startNewConversation has just returned
StartReturned == lastOp.name = "startNewConversation"

\* no step of startNewConversation touches a messages key
StartLeavesTurns ==
    [][(startNewConversation \/ startSetItem) =>
          \A id \in AllIds : storage'[keyFor(id)] = storage[keyFor(id)]]_vars

\* a loadMessages under the new id right after startNewConversation is empty
NewIdLoadsEmpty ==
    [][(StartReturned /\ lastOp'.name = "load" /\ lastOp'.id = lastOp.id)
          => lastOp'.result = <<>>]_vars

NoStartBetween(i, j) ==
    \A k \in (i + 1)..(j - 1) : sessLog[k].fn # "startNewConversation"

\* C14: when getOrCreateSessionId returns id the stored session pointer
\* equals id, and every later getOrCreateSessionId with no
\* startNewConversation in between returns the same id, also when calls
\* overlap or a storage operation fails.
C14_SessionIdStable ==
    \A i \in 1..Len(sessLog) :
        sessLog[i].fn = "getOrCreateSessionId" =>
            /\ sessLog[i].pointer = Stored(IdText(sessLog[i].id))
            /\ \A j \in (i + 1)..Len(sessLog) :
                   (sessLog[j].fn = "getOrCreateSessionId" /\ NoStartBetween(i, j))
                       => sessLog[j].id = sessLog[i].id

\* ------------------------------------------------------------------------
\* Properties of the session store while AsyncStorage fails
\* ------------------------------------------------------------------------

StoreFunctions ==
    {"purge", "load", "save", "clear", "getChatLanguage", "setChatLanguage",
     "clearChatLanguage", "getLastChatLanguage", "setLastChatLanguage"}

\* C15: whichever AsyncStorage operations throw, purgeExpiredSessions,
\* loadMessages, saveMessages, clearMessages and the chat-language getters
\* and setters resolve: none of them rejects, loadMessages returns the empty
\* list and the language getters return null when their read fails.
C15_StorageFailuresSwallowed ==
    (lastOp.name \in StoreFunctions /\ lastOp.fault # {}) =>
        /\ ~lastOp.threw
        /\ (lastOp.name = "load" /\ "getItem" \in lastOp.fault) => lastOp.result = <<>>
        /\ (lastOp.name \in {"getChatLanguage", "getLastChatLanguage"}
               /\ "getItem" \in lastOp.fault) => lastOp.result = <<Absent>>

\* loadMessages met a getItem and a removeItem that throw, with a valid
\* record under the key
C15_Witness ==
    /\ lastOp.name = "load"
    /\ lastOp.fault = {"getItem", "removeItem"}
    /\ WellShaped(PreItem)
    /\ lastOp.result = <<>>
    /\ storage[keyFor(lastOp.id)] = PreItem

\* ------------------------------------------------------------------------
\* Properties of parseStreamResponse, as sendChatMessage applies it
\* ------------------------------------------------------------------------

\* sendChatMessage has returned after the stream resolved with this body
Completed(body) ==
    /\ kind = "chat" /\ pc = "done"
    /\ promiseState = "resolved"
    /\ FullBody = body

\* the place (from 1) where the separator first occurs in s, 0 when nowhere
MarkerAt(s) ==
    LET at == {i \in 1..Len(s) : i + Len(marker) - 1 <= Len(s)
                                 /\ SubSeq(s, i, i + Len(marker) - 1) = marker}
    IN  IF at = {} THEN 0 ELSE CHOOSE i \in at : \A j \in at : i <= j

\* the array of a trailer: the trailer itself, or the array its one field holds
WrappedArray(items) == IF items.t = "arr" THEN items.v ELSE items.v[1][2].v

\* C16 as claimed: for mainText without the separator and items an empty
\* array, a flat array or an object wrapping an array under some field name,
\* sendChatMessage completes mainText + separator + JSON.stringify(items)
\* with the trimmed mainText and a list equal to the array.
C16_TrailerRoundTripAnyField ==
    \A items \in TrailerItems :
        Completed(TrailerBody(items)) =>
            log[Len(log)] = CompleteCall(Trim(MainText), WrappedArray(items))

\* C16 (amended): the same round trip returns the trimmed mainText and a
\* list equal to the array when items is an empty array, a flat array or an
\* object whose field named "references" holds the array; an object holding
\* the array under any other name yields the trimmed mainText and an empty
\* list.
C16_TrailerRoundTrip ==
    \A items \in TrailerItems :
        Completed(TrailerBody(items)) =>
            log[Len(log)] =
                CompleteCall(Trim(MainText),
                             IF items.t = "arr" \/ items.v[1][1] = ReferencesKey
                             THEN WrappedArray(items) ELSE <<>>)

C16_Witness ==
    /\ \E items \in TrailerItems :
           /\ items.t = "obj" /\ items.v[1][1] = ReferencesKey
           /\ Completed(TrailerBody(items))
    /\ log[Len(log)].refs # <<>>

\* the text after the first separator is there and is not valid JSON
MalformedTrailer(body) ==
    /\ MarkerAt(body) > 0
    /\ ~JSONparse(Trim(SubSeq(body, MarkerAt(body) + Len(marker), Len(body)))).ok

\* C17: when the text after the separator is not valid JSON,
\* parseStreamResponse does not throw: sendChatMessage calls onComplete with
\* the main text (the part before the separator, trimmed) and an empty
\* reference list, and does not call onError.
C17_MalformedTrailerTolerated ==
    (kind = "chat" /\ pc = "done" /\ promiseState = "resolved"
        /\ MalformedTrailer(FullBody)) =>
        /\ log[Len(log)] =
               CompleteCall(Trim(SubSeq(FullBody, 1, MarkerAt(FullBody) - 1)), <<>>)
        /\ \A i \in 1..Len(log) : log[i].cb # "error"

C17_Witness ==
    /\ Completed(MainText \o marker \o <<"{", "n", "o", "t", " ", "j", "s", "o", "n">>)
    /\ log[Len(log)] = CompleteCall(<<"h", "i">>, <<>>)

\* C18: parseStreamResponse splits at the first occurrence of the separator:
\* the main text is everything before it, trimmed, and holds nothing of the
\* input at or after it; when the separator is absent the main text is the
\* whole input, trimmed, and the reference list is empty.
C18_SplitsAtFirstSeparator ==
    (kind = "chat" /\ pc = "done" /\ promiseState = "resolved") =>
        IF MarkerAt(FullBody) = 0
        THEN log[Len(log)] = CompleteCall(Trim(FullBody), <<>>)
        ELSE /\ log[Len(log)].cb = "complete"
             /\ log[Len(log)].text = Trim(SubSeq(FullBody, 1, MarkerAt(FullBody) - 1))
             /\ MarkerAt(log[Len(log)].text) = 0

\* a body with two separators was completed
C18_Witness ==
    /\ kind = "chat" /\ pc = "done" /\ promiseState = "resolved"
    /\ MarkerAt(FullBody) > 0
    /\ MarkerAt(SubSeq(FullBody, MarkerAt(FullBody) + 1, Len(FullBody))) > 0
    /\ log[Len(log)].text = <<"h", "i">>

\* ------------------------------------------------------------------------
\* Properties of the chat screen
\* ------------------------------------------------------------------------

\* the save the current render asks for
Snapshot == [sid |-> chatSessionId, msgs |-> chatMessages, latest |-> TRUE]

\* the record under the current session id is the compacted in-memory list
Persisted ==
    chatSessionId # "" =>
        storage[keyFor(chatSessionId)] =
            Stored(JSONstringify(Payload(clock,
                [i \in 1..Len(chatMessages) |-> compactMessage(chatMessages[i])])))

\* C19: in the chat screen at most one save timer is pending at any time and
\* it holds the latest turn list and session id, never an older snapshot;
\* every change of the turn list or of the session id replaces the pending
\* save by one for the new values; and once the turn list stops changing the
\* record stored under the current session id eventually equals, and stays
\* equal to, the compacted latest in-memory turn list.
C19_DebouncedLastWriteWins ==
    /\ [](Len(timers) <= 1)
    /\ [](\A i \in 1..Len(timers) : timers[i] = Snapshot)
    /\ [][(chatMessages' # chatMessages \/ chatSessionId' # chatSessionId)
             => timers' = <<Snapshot'>>]_vars
    /\ <>[]Persisted

\* a save superseded another one that was pending for an older turn list,
\* and the record under the session holds the latest list with its
\* references
C19_Witness ==
    /\ chatSessionId # ""
    /\ Len(chatMessages) = 2
    /\ HasReferences(chatMessages[2])
    /\ timers = <<>>
    /\ exchanges = <<>>
    /\ Persisted

\* C20: while an exchange is in flight the turn list is at least as long as
\* when handleSendMessage appended the user turn and the placeholder, and
\* every turn before the placeholder is as it was then.
C20_AppendOnlyDuringExchange ==
    \A i \in 1..Len(exchanges) :
        /\ Len(chatMessages) >= exchanges[i].slot
        /\ SubSeq(chatMessages, 1, exchanges[i].slot - 1) = exchanges[i].before

\* the session ids uuid.v4() can have produced in this run
FreshIds == {Uuid(n) : n \in 1..(MaxUuids + 2)}

\* C22: before the first handleSendMessage of the run, no messages record is
\* stored under a session id generated in this run, neither after
\* initialization nor after handleNewChat.
C22_NoRecordBeforeFirstSend ==
    sends = 0 => \A id \in FreshIds : ~storage[keyFor(id)].present

\* C23: once handleNewChat has completed and no save timer is pending,
\* storage holds no messages record under the session handleNewChat left.
C23_NewChatDeletesOldTurns ==
    (newChat.pc = "idle" /\ newChat.old # "" /\ timers = <<>>)
        => ~storage[keyFor(newChat.old)].present

\* C25: when no request is in flight, isLoading is false (only the callbacks
\* of a request reset it, so a request that ended with isLoading true leaves
\* it true).
C25_LoadingResetWhenRequestEnds == exchanges = <<>> => ~isLoading

\* C26: at most one chat request is in flight, and the placeholder of an
\* exchange that has not had a callback yet is still the empty bot turn
\* handleSendMessage appended.
C26_CallbacksTouchOwnPlaceholder ==
    /\ Len(exchanges) <= 1
    /\ \A j \in 1..Len(exchanges) :
           (exchanges[j].chunks = 0 /\ Len(chatMessages) >= exchanges[j].slot)
               => chatMessages[exchanges[j].slot] = Turn(Bot, <<>>)

\* C27: while the turn list loadMessages read for the session at screen
\* start is not yet applied, the record stored under that session still
\* holds those turns.
C27_InitKeepsHistory ==
    (/\ newChats = 0
     /\ sends = 0
     /\ loads # <<>>
     /\ Head(loads).sid = chatSessionId
     /\ Head(loads).initial # <<>>)
        => /\ WellShaped(storage[keyFor(chatSessionId)])
           /\ MessagesOf(storage[keyFor(chatSessionId)]) = Head(loads).initial

\* ------------------------------------------------------------------------
\* Properties of the language picker
\* ------------------------------------------------------------------------

\* the current session has a user turn, in memory or in its stored record
SessionStarted ==
    \/ hasStartedChat(chatMessages)
    \/ /\ WellShaped(storage[keyFor(chatSessionId)])
       /\ hasStartedChat(MessagesOf(storage[keyFor(chatSessionId)]))

\* C21: once the session has a user turn, in memory or persisted, choosing
\* a language in the picker changes neither selectedLanguage nor the chat
\* language stored for the session.
C21_LanguageImmutableAfterFirstTurn ==
    [][(SessionStarted /\ isLanguageModalVisible /\ ~isLanguageModalVisible')
          => /\ selectedLanguage' = selectedLanguage
             /\ storage'[languageKeyFor(chatSessionId)]
                    = storage[languageKeyFor(chatSessionId)]]_vars

\* ------------------------------------------------------------------------
\* Properties of the lesson progress
\* ------------------------------------------------------------------------

\* valid JSON of the shape { completedLessonIds: array, ts: number }
WellShapedProgress(item) ==
    /\ item.present
    /\ JSONparse(item.raw).ok
    /\ LET v == JSONparse(item.raw).val
       IN  /\ v.t = "obj"
           /\ HasKey(v, K_completedLessonIds) /\ GetKey(v, K_completedLessonIds).t = "arr"
           /\ HasKey(v, K_ts) /\ GetKey(v, K_ts).t = "num"

\* C24: after getProgress has read a value that is not valid JSON or not of
\* the shape of a progress record, it has returned the empty default, has
\* raised nothing, and the key is gone.
C24_ProgressSelfHeals ==
    (progLast.called /\ progLast.pre.present /\ ~WellShapedProgress(progLast.pre))
        => /\ progLast.result = EmptyProgress
           /\ ~progLast.threw
           /\ ~progressStore[progLast.treeId].present

Range(list) == {list[i] : i \in 1..Len(list)}

NoDuplicates(list) == \A i, j \in 1..Len(list) : list[i] = list[j] => i = j

\* C30: the completed list of useHikmahProgress holds no lesson id twice,
\* completedCount <= total and 0 <= percent <= 100; after each toggle the
\* value setProgress stored holds the in-memory completed set; and toggling
\* the lesson toggled just before restores the set of before that toggle.
C30_ProgressInvariants ==
    /\ [](/\ NoDuplicates(completed)
          /\ completedCount <= total
          /\ percent >= 0 /\ percent <= 100)
    /\ [][toggles' # toggles
             => /\ WellShapedProgress(progressStore'["t1"])
                /\ Range(CompletedOf(JSONparse(progressStore'["t1"].raw).val))
                       = Range(completed')]_vars
    /\ [][(toggles' # toggles /\ prevToggle'.id = prevToggle.id)
             => Range(completed') = prevToggle.before]_vars

\* both lessons are complete after the hydrated list lost a stale id and a
\* lesson was toggled off and on again
C30_Witness ==
    /\ isLoaded
    /\ toggles = MaxToggles
    /\ Range(completed) = Range(LessonIds)
    /\ percent = 100
    /\ progLoads = <<>>

\* C28: whatever the interleaving of the upsertUserProgress calls of the
\* lesson screen for one (user_id, lesson_id), the client issues at most one
\* POST /user-progress.
C28_AtMostOnePost == requests.post <= 1

\* ------------------------------------------------------------------------
\* Properties of the authentication state
\* ------------------------------------------------------------------------

\* C29: once no auth operation is in progress (the restore, a signIn or a
\* signOut has ended, by success or by a throw), status is signedIn or
\* signedOut, never "loading".
C29_StatusSettlesAfterAuthCall == authOps = {} => authStatus # "loading"

====
